---- MODULE Spec2Model ----
(***************************************************************************)
(* reddit-clawler: the command handlers (cli/commands/user.rs,             *)
(* cli/commands/subreddit.rs), the download engine they run, the cache     *)
(* (utils/state.rs) and the per-provider retrieval (utils/downloader.rs,   *)
(* clients/redgifs.rs).                                                    *)
(*                                                                         *)
(* One behaviour is a sequence of invocations of the program on one        *)
(* resource: every invocation starts from SharedState::default() and the   *)
(* cache file on disk is what survives between invocations.                *)
(***************************************************************************)
EXTENDS Integers, Sequences, FiniteSets, TLC

\* ------------------------------------------------------------------ bounds
MaxRuns == 2
MaxConcurrency == 2
MaxBytes == 2
\* posts per page of the listing
PageLimit == 2

\* ------------------------------------------------------------- Option<T>
None == <<>>
Some(x) == <<x>>

\* ---------------------------------------------------------------- state
VARIABLES
    cmd,              \* which command handler the invocations run
    submitted,        \* the posts the listing of the resource returns
    runs,             \* invocations started so far
    pc,               \* position of the handler
    opts,             \* CliSharedOptions of the invocation
    disk,             \* cache.json of the resource
    file_cache,       \* SharedState.file_cache
    file_cache_path,  \* SharedState.file_cache_path
    redgifs_token,    \* SharedState.redgifs_token
    posts,            \* descriptors parsed from the responses
    posts_to_download,\* descriptors not yet dispatched
    total_post_len,   \* descriptors submitted to the engine
    semaphore,        \* available permits
    units,            \* spawned download tasks, in dispatch order
    download_stats,   \* DownloadStats
    lock_stats,       \* owner of the download_stats mutex
    lock_ss,          \* owner of the shared_state mutex
    lock_dp,          \* owner of the download_progress mutex
    clock,            \* the clockwork_orange task
    tx_sent,          \* the oneshot message was sent
    reported,         \* post_report was called on the progress bar
    self_files,       \* upsert_item: self.files
    item,             \* upsert_item: the item of the last call
    old_files,        \* upsert_item: self.files before the last call
    last_success,     \* upsert_item: per key, the success flag of the last call
    prev_units,       \* the units of the invocation before, as they ended
    payload,          \* from_str: the cache file that is loaded
    cache_value,      \* get_cache_from_serde_value: the value of the call at hand
    trail,            \* the versions the cache went through during the load
    result,           \* the Result of the load
    reloaded,         \* the Result of loading what to_string made of the result
    api,              \* a fetch taken alone: the endpoint and what its listing answers
    fetch_in,         \* the cache entries and options.limit the fetch is called with
    fetch_st,         \* responses, after and request_count of the request loop
    requests,         \* the requests sent to the listing, with their answers
    probes,           \* the requests sent to the about endpoint, with their answers
    fetch_result,     \* the Result of the fetch
    child,            \* parse_user_submitted: the child of the response it is called with
    parsed,           \* parse_user_submitted: the descriptors it returned
    reparsed,         \* the descriptors returned for the same payload, deserialized again
    download_in,      \* download_crawler_post: the provider of the post and what the call meets
    download_out      \* download_crawler_post: what the call ended with

vars == <<self_files, item, old_files, last_success, payload, cache_value, trail, result, reloaded,
          api, fetch_in, fetch_st, requests, probes, fetch_result, child, parsed, reparsed, download_in, download_out, prev_units, cmd, submitted, runs, pc, opts, disk, file_cache, file_cache_path, redgifs_token,
          posts, posts_to_download, total_post_len, semaphore, units,
          download_stats, lock_stats, lock_ss, lock_dp, clock, tx_sent, reported>>

\* the state of the upsert_item calls, untouched by the handlers
upsert == <<self_files, item, old_files, last_success>>

\* the state of a load of the cache file taken alone, untouched by the handlers
migration == <<payload, cache_value, trail, result, reloaded>>

\* the state of a fetch taken alone, untouched by the handlers
fetching == <<api, fetch_in, fetch_st, requests, probes, fetch_result>>

\* the state of a call of the parser taken alone, untouched by the handlers
parsing == <<child, parsed, reparsed>>

\* the state of a call of the downloader taken alone, untouched by the handlers
downloading == <<download_in, download_out>>

engine == <<posts_to_download, semaphore, units, download_stats, lock_stats,
            lock_ss, lock_dp, clock, tx_sent, reported>>

\* the owner of a mutex: nobody, the handler, or the task of unit i
Free == <<"free", 0>>
Main == <<"main", 0>>
Task(i) == <<"unit", i>>

\* ---------------------------------------------------- the submitted posts
\* What the listing of the resource holds, already classified: one
\* RedditCrawlerPost per downloadable item.
Post(id, index, media_id, is_gallery, provider) ==
    [id |-> id, index |-> index, media_id |-> media_id,
     is_gallery |-> is_gallery, provider |-> provider,
     created_utc |-> 1, title |-> "t1", subreddit |-> "s1", url |-> "u1"]

Imgur == Post("a", None, None, None, "ImgurImage")
Gallery0 == Post("b", Some(0), Some("m0"), Some(TRUE), "RedditGalleryImage")
Gallery1 == Post("b", Some(1), Some("m1"), Some(TRUE), "RedditGalleryImage")
Video == Post("c", None, None, None, "RedditVideo")
Unsupported == Post("d", None, None, None, "None")
Image == Post("e", None, None, None, "RedditImage")
Redgifs1 == Post("f", None, None, None, "RedgifsVideo")
Redgifs2 == Post("g", None, None, None, "RedgifsImage")

\* the listings a behaviour is checked on
Listings ==
    { <<Imgur, Gallery0, Gallery1>>,
      <<Image, Imgur, Unsupported>>,
      <<Imgur, Video, Image>>,
      <<Redgifs1, Redgifs2>> }

\* ---------------------------------------------------------------- cache
FileCacheItemLatest(post, success) ==
    [id |-> post.id, created_utc |-> post.created_utc, title |-> post.title,
     subreddit |-> post.subreddit, url |-> post.url, index |-> post.index,
     media_id |-> post.media_id, is_gallery |-> post.is_gallery, success |-> success]

\* subreddit.rs 128-136: the entry of the subreddit handler carries no media id
FileCacheItem(post, success) ==
    [id |-> post.id, created_utc |-> post.created_utc, title |-> post.title,
     subreddit |-> post.subreddit, url |-> post.url, index |-> post.index,
     media_id |-> None, is_gallery |-> None, success |-> success]

FileCacheStatus(resource, last_download) ==
    [resource |-> resource, last_download |-> last_download]

DefaultFileCache ==
    [status |-> FileCacheStatus("Active", "Success"), files |-> <<>>]

NoFile == [exists |-> FALSE, content |-> None]

\* ------------------------------------------------- the cache file as JSON
\* A serde_json::Value object is a function from its keys to its values. Of an
\* entry the keys id, success, index and the gallery and media keys are kept;
\* an Option that is null and one that is absent are both None.
Has(o, k) == k \in DOMAIN o

\* an Option field: None when the key is absent
Opt(o, k) == IF k \in DOMAIN o THEN o[k] ELSE None

\* value[k] = v
With(o, k, v) == [x \in DOMAIN o \cup {k} |-> IF x = k THEN v ELSE o[x]]

\* the keys of o that are in ks
Restrict(o, ks) == [x \in DOMAIN o \cap ks |-> o[x]]

Ok(version, c) == [ok |-> TRUE, version |-> version, cache |-> c]
Err(e) == [ok |-> FALSE, error |-> e]

\* state.rs 37-54: the versions FileCacheVersion deserializes
Versions == 1..4

\* state.rs 56-59: serde_json::from_value::<PartialFileCache>
HasVersion(value) == Has(value, "version") /\ value["version"] \in Versions

\* an entry written with the keys of version 3
ItemToJsonV3(f) ==
    [k \in {"id", "createdUtc", "title", "subreddit", "url", "success", "index"}
               \cup (IF f.is_gallery /= None THEN {"isGallery"} ELSE {}) |->
        IF k = "isGallery" THEN f.is_gallery
        ELSE IF k = "createdUtc" THEN f.created_utc
        ELSE f[k]]

\* state.rs 137-151: Serialize of FileCacheItemLatest, snake_case, is_gallery
\* and media_id skipped when None
ItemToJson(f) ==
    Restrict(f, {"id", "created_utc", "title", "subreddit", "url", "success", "index"}
                   \cup (IF f.is_gallery /= None THEN {"is_gallery"} ELSE {})
                   \cup (IF f.media_id /= None THEN {"media_id"} ELSE {}))

\* serde_json::to_string(&ss.file_cache)
to_string(c) ==
    [version |-> 4,
     status |-> [resource |-> c.status.resource, last_download |-> c.status.last_download],
     files |-> [i \in DOMAIN c.files |-> ItemToJson(c.files[i])]]

\* state.rs 137-151: Deserialize of FileCacheItemLatest
ItemLatestParses(o) ==
    \A k \in {"id", "created_utc", "title", "subreddit", "url", "success"} : Has(o, k)

ItemLatestFromJson(o) ==
    [id |-> o["id"], created_utc |-> o["created_utc"], title |-> o["title"],
     subreddit |-> o["subreddit"], url |-> o["url"], success |-> o["success"],
     index |-> Opt(o, "index"), is_gallery |-> Opt(o, "is_gallery"),
     media_id |-> Opt(o, "media_id")]

\* state.rs 164-176: Deserialize of FileCacheItemV3, camelCase
ItemV3Parses(o) ==
    \A k \in {"id", "createdUtc", "title", "subreddit", "url", "success"} : Has(o, k)

ItemV3FromJson(o) ==
    [id |-> o["id"], created_utc |-> o["createdUtc"], title |-> o["title"],
     subreddit |-> o["subreddit"], url |-> o["url"], success |-> o["success"],
     index |-> Opt(o, "index"), is_gallery |-> Opt(o, "isGallery")]

\* state.rs 80-94: serde_json::from_value::<FileCacheLatest>
LatestParses(value) ==
    /\ HasVersion(value)
    /\ Has(value, "status")
    /\ Has(value["status"], "resource") /\ Has(value["status"], "last_download")
    /\ Has(value, "files")
    /\ \A i \in DOMAIN value["files"] : ItemLatestParses(value["files"][i])

LatestFromJson(value) ==
    [status |-> FileCacheStatus(value["status"]["resource"], value["status"]["last_download"]),
     files |-> [i \in DOMAIN value["files"] |-> ItemLatestFromJson(value["files"][i])]]

\* state.rs 154-162: serde_json::from_value::<FileCacheV3>
V3Parses(value) ==
    /\ HasVersion(value)
    /\ Has(value, "status")
    /\ Has(value["status"], "resource") /\ Has(value["status"], "lastDownload")
    /\ Has(value, "files")
    /\ \A i \in DOMAIN value["files"] : ItemV3Parses(value["files"][i])

V3FromJson(value) ==
    [status |-> [resource |-> value["status"]["resource"],
                 last_download |-> value["status"]["lastDownload"]],
     files |-> [i \in DOMAIN value["files"] |-> ItemV3FromJson(value["files"][i])]]

\* state.rs 273-291: the V3 cache as a FileCacheLatest, media_id None
V3ToLatest(v3_cache) ==
    [status |-> FileCacheStatus(v3_cache.status.resource, v3_cache.status.last_download),
     files |-> [i \in DOMAIN v3_cache.files |->
                  [id |-> v3_cache.files[i].id,
                   created_utc |-> v3_cache.files[i].created_utc,
                   title |-> v3_cache.files[i].title,
                   subreddit |-> v3_cache.files[i].subreddit,
                   url |-> v3_cache.files[i].url,
                   success |-> v3_cache.files[i].success,
                   index |-> v3_cache.files[i].index,
                   is_gallery |-> v3_cache.files[i].is_gallery,
                   media_id |-> None]]]

\* the status of a new cache written with the keys of the latest version
StatusLatestJson == [resource |-> "Active", last_download |-> "Success"]

\* state.rs 249-253: serde_json::to_value(FileCacheStatusV2 { Active, Success })
StatusV2Json == [resource |-> "Active", lastDownload |-> "Success"]

\* state.rs 241-299: one call of get_cache_from_serde_value: the call it ends
\* with, or its result
Call(value) ==
    IF ~HasVersion(value) THEN [recurse |-> FALSE, result |-> Err("SerdeJson")]
    ELSE CASE value["version"] = 1 ->
                [recurse |-> TRUE, value |-> With(With(value, "version", 2), "status", StatusV2Json)]
           [] value["version"] = 2 ->
                [recurse |-> TRUE, value |-> With(value, "version", 3)]
           [] value["version"] = 3 ->
                IF V3Parses(value)
                THEN [recurse |-> FALSE, result |-> Ok(4, V3ToLatest(V3FromJson(value)))]
                ELSE [recurse |-> FALSE, result |-> Err("SerdeJson")]
           [] value["version"] = 4 ->
                IF LatestParses(value)
                THEN [recurse |-> FALSE, result |-> Ok(value["version"], LatestFromJson(value))]
                ELSE [recurse |-> FALSE, result |-> Err("SerdeJson")]

RECURSIVE get_cache_from_serde_value(_)
get_cache_from_serde_value(value) ==
    LET c == Call(value)
    IN IF c.recurse THEN get_cache_from_serde_value(c.value) ELSE c.result

\* a load that starts from the default cache when the file does not load
from_str_or_default(s) ==
    IF get_cache_from_serde_value(s).ok THEN get_cache_from_serde_value(s)
    ELSE Ok(4, DefaultFileCache)

\* state.rs 301-307: FileCacheLatest::from_str
from_str(s) == get_cache_from_serde_value(s)

fs_write(c) == [exists |-> TRUE, content |-> Some(to_string(c))]

\* the closure of find / any in upsert_item, the update loop and the skip filter
media_id_matches(a, b) ==
    IF a /= None /\ b /= None THEN a[1] = b[1]
    ELSE IF a = None /\ b = None THEN TRUE
    ELSE FALSE

KeyMatches(p, f) ==
    /\ p.id = f.id
    /\ p.index = f.index
    /\ media_id_matches(p.media_id, f.media_id)

\* into_iter().filter(...).collect(): the elements of s kept by the set keep
SelectSeqBy(s, keep) == SelectSeq(s, LAMBDA x : x \in keep)

Range(s) == {s[i] : i \in DOMAIN s}

\* user.rs: the pre-dispatch skip filter
UserFound(p, files) ==
    \E i \in DOMAIN files : KeyMatches(p, files[i]) /\ files[i].success

UserSkipFilter(ps, files) ==
    SelectSeqBy(ps, {p \in Range(ps) : ~UserFound(p, files)})

\* subreddit.rs: the pre-dispatch skip filter
SubredditFound(p, files) ==
    \E i \in DOMAIN files : p.id = files[i].id /\ files[i].success

SubredditSkipFilter(ps, files) ==
    SelectSeqBy(ps, {p \in Range(ps) : ~SubredditFound(p, files)})

\* a pre-filter that strips only the posts recorded as downloaded
NonDownloadedBySuccess(ps, files) ==
    SelectSeqBy(ps, {p \in Range(ps) :
                        ~(\E i \in DOMAIN files : files[i].id = p.id /\ files[i].success)})

\* reddit.rs: the page pre-filter of the fetcher
NonDownloaded(ps, files) ==
    SelectSeqBy(ps, {p \in Range(ps) : ~(\E i \in DOMAIN files : files[i].id = p.id)})

\* ------------------------------------------------------------ the fetcher
\* the listing API: the posts of the resource come PageLimit to a page, every
\* page but the last with a cursor to the next
Rank(s, j) == Cardinality({s[i].id : i \in 1..j})

PageNo(s, j) == ((Rank(s, j) - 1) \div PageLimit) + 1

Page(s, k) == SelectSeqBy(s, {s[j] : j \in {i \in DOMAIN s : PageNo(s, i) = k}})

Paginate(s) ==
    IF s = <<>> THEN << <<>> >>
    ELSE [k \in 1..PageNo(s, Len(s)) |-> Page(s, k)]

\* the responses of the listing API to the pages: page k comes with the cursor
\* of page k + 1, the last page with none
Listing(pages) ==
    [k \in DOMAIN pages |->
        [children |-> pages[k], after |-> IF k < Len(pages) THEN Some(k + 1) ELSE None]]

\* the response to the request for the cursor after: the page the cursor names,
\* the first page for a request without a cursor
Respond(listing, after) == listing[IF after = None THEN 1 ELSE after[1]]

\* reddit.rs 108-110: responses, after and request_count before the loop
FetchStart == [responses |-> <<>>, after |-> None, request_count |-> 0, break |-> FALSE]

\* a loop that never takes the cursor of the response
IterationNoCursor(res, files, limit, st) ==
    LET non_downloaded == NonDownloaded(res.children, files)
        request_count == st.request_count + 1
    IN [responses |-> IF non_downloaded /= <<>> THEN Append(st.responses, non_downloaded)
                      ELSE st.responses,
        after |-> st.after,
        request_count |-> request_count,
        break |-> res.after = None \/ (limit /= None /\ request_count >= limit[1])]

\* reddit.rs 153-184: one iteration of the request loop on the response res
Iteration(res, files, limit, st) ==
    LET non_downloaded == NonDownloaded(res.children, files)
        request_count == st.request_count + 1
        break == res.after = None \/ (limit /= None /\ request_count >= limit[1])
    IN [responses |-> IF non_downloaded /= <<>> THEN Append(st.responses, non_downloaded)
                      ELSE st.responses,
        after |-> IF break THEN st.after ELSE res.after,
        request_count |-> request_count,
        break |-> break]

\* reddit.rs 120-187: the request loop from the state st on, every request
\* answered; next is the state of the loop after the iteration
RECURSIVE FetchFrom(_, _, _, _)
FetchFrom(listing, files, limit, st) ==
    CHOOSE responses \in
       {IF next.break THEN next.responses ELSE FetchFrom(listing, files, limit, next) :
           next \in {Iteration(Respond(listing, st.after), files, limit, st)}} : TRUE

\* reddit.rs 100-188
get_user_submissions(pages, files, limit) ==
    FetchFrom(Listing(pages), files, limit, FetchStart)

\* reddit.rs 212-294
get_subreddit_submissions(pages, files, limit) ==
    FetchFrom(Listing(pages), files, limit, FetchStart)

\* user.rs 153-156: responses.iter().flat_map(|r| reddit_parser.parse(r))
RECURSIVE Flatten(_)
Flatten(responses) ==
    IF responses = <<>> THEN <<>> ELSE Head(responses) \o Flatten(Tail(responses))

\* ---------------------------------------------------------------- Init
NoOpts == [force |-> FALSE, update |-> FALSE, mock |-> FALSE, skip |-> FALSE,
           concurrency |-> 1, limit |-> None]

DefaultStats == [files_downloaded |-> 0, bytes_downloaded |-> 0, downloads_failed |-> 0]

\* no invocation yet, the cache file d
Idle(c, l, d) ==
    /\ cmd = c
    /\ submitted = l
    /\ runs = 0
    /\ pc = "idle"
    /\ opts = NoOpts
    /\ disk = d
    /\ file_cache = DefaultFileCache
    /\ file_cache_path = None
    /\ redgifs_token = None
    /\ posts = <<>>
    /\ posts_to_download = <<>>
    /\ total_post_len = 0
    /\ semaphore = 0
    /\ units = <<>>
    /\ prev_units = <<>>
    /\ download_stats = DefaultStats
    /\ lock_stats = Free
    /\ lock_ss = Free
    /\ lock_dp = Free
    /\ clock = "none"
    /\ tx_sent = FALSE
    /\ reported = FALSE

NoUpsert ==
    /\ self_files = <<>>
    /\ item = None
    /\ old_files = <<>>
    /\ last_success = <<>>

\* cache files that were not written by this version of the program: without
\* a version, of a version to come, and of the layout of another version
FoundPayloads ==
    { [status |-> [resource |-> "Active", last_download |-> "Success"], files |-> <<>>],
      [version |-> 5, status |-> [resource |-> "Active", last_download |-> "Success"],
       files |-> <<>>],
      [version |-> 4, status |-> [resource |-> "Active", lastDownload |-> "Success"],
       files |-> <<>>],
      [version |-> 3, status |-> [resource |-> "Active", last_download |-> "Success"],
       files |-> <<>>],
      [version |-> 2, files |-> <<>>],
      [version |-> 1, status |-> [resource |-> "Active", lastDownload |-> "Success"]],
      [version |-> 4, status |-> [resource |-> "Active", last_download |-> "Success"],
       files |-> <<[id |-> "a", index |-> None]>>] }

\* what the first invocation finds on disk
FoundFiles == {NoFile} \cup {[exists |-> TRUE, content |-> Some(p)] : p \in FoundPayloads}

NoMigration ==
    /\ payload = None
    /\ cache_value = None
    /\ trail = <<>>
    /\ result = None
    /\ reloaded = None

NoFetching ==
    /\ api = None
    /\ fetch_in = None
    /\ fetch_st = FetchStart
    /\ requests = <<>>
    /\ probes = <<>>
    /\ fetch_result = None

NoParsing ==
    /\ child = None
    /\ parsed = None
    /\ reparsed = None

NoDownloading ==
    /\ download_in = None
    /\ download_out = None

Init ==
    /\ \E c \in {"user", "subreddit"}, l \in Listings, d \in FoundFiles : Idle(c, l, d)
    /\ NoUpsert
    /\ NoMigration
    /\ NoFetching
    /\ NoParsing
    /\ NoDownloading

\* ------------------------------------------------------- process start
\* main(): a new process, SharedState::default(), the options of the command line
StartRun ==
    /\ pc \in {"idle", "ok", "err"}
    /\ runs < MaxRuns
    /\ runs' = runs + 1
    /\ \E f \in BOOLEAN, u \in BOOLEAN, m \in BOOLEAN, s \in BOOLEAN,
          c \in 1..MaxConcurrency, l \in {None, Some(1)} :
          /\ cmd = "subreddit" => ~f /\ ~u /\ ~m
          /\ opts' = [force |-> f, update |-> u, mock |-> m, skip |-> s, concurrency |-> c,
                      limit |-> l]
    /\ file_cache' = DefaultFileCache
    /\ file_cache_path' = None
    /\ redgifs_token' = None
    /\ posts' = <<>>
    /\ posts_to_download' = <<>>
    /\ total_post_len' = 0
    /\ semaphore' = 0
    /\ units' = <<>>
    /\ prev_units' = [i \in DOMAIN units |-> [post |-> units[i].post,
                                               outcome |-> units[i].outcome]]
    /\ download_stats' = DefaultStats
    /\ lock_stats' = Free
    /\ lock_ss' = Free
    /\ lock_dp' = Free
    /\ clock' = "none"
    /\ tx_sent' = FALSE
    /\ reported' = FALSE
    /\ pc' = "load"
    /\ UNCHANGED <<upsert, migration, fetching, parsing, downloading, cmd, submitted, disk>>

\* a skip test that knows deleted resources only
MarkedDeleted(status, force) == ~force /\ status.resource = "Deleted"

\* user.rs 63-65
MarkedGone(status, force) == ~force /\ status.resource \in {"Deleted", "Suspended"}

\* user.rs 55-80: load the cache file; a file that does not load ends the run with
\* its error, a resource marked deleted or suspended is skipped
LoadCache ==
    /\ pc = "load"
    /\ cmd = "user"
    /\ IF disk.exists
       THEN LET r == from_str(disk.content[1])
            IN IF ~r.ok
               THEN /\ pc' = "err"
                    /\ UNCHANGED <<file_cache, file_cache_path, disk>>
               ELSE LET loaded == r.cache
                        gone == MarkedGone(loaded.status, opts.force)
                        skipped == [loaded EXCEPT !.status.last_download = "Success"]
                    IN /\ file_cache_path' = Some("cache.json")
                       /\ IF gone
                          THEN /\ file_cache' = skipped
                               /\ disk' = fs_write(skipped)
                               /\ pc' = "ok"
                          ELSE /\ file_cache' = loaded
                               /\ disk' = disk
                               /\ pc' = "fetch"
       ELSE /\ pc' = "fetch"
            /\ UNCHANGED <<file_cache, file_cache_path, disk>>
    /\ UNCHANGED <<upsert, migration, fetching, parsing, downloading, prev_units, cmd, submitted, runs, opts, redgifs_token, posts, total_post_len>>
    /\ UNCHANGED engine

\* user.rs 82-94: the responses are read from the mock file
FetchMock ==
    /\ pc = "fetch"
    /\ cmd = "user"
    /\ opts.mock
    /\ posts' = submitted
    /\ pc' = "parsed"
    /\ UNCHANGED <<upsert, migration, fetching, parsing, downloading, prev_units, cmd, submitted, runs, opts, disk, file_cache, file_cache_path, redgifs_token,
                   total_post_len>>
    /\ UNCHANGED engine

\* user.rs 96-100: get_user_submissions returned Ok(responses)
FetchOk ==
    /\ pc = "fetch"
    /\ cmd = "user"
    /\ ~opts.mock
    /\ posts' = Flatten(get_user_submissions(Paginate(submitted), file_cache.files,
                                             opts.limit))
    /\ pc' = "fetched"
    /\ UNCHANGED <<upsert, migration, fetching, parsing, downloading, prev_units, cmd, submitted, runs, opts, disk, file_cache, file_cache_path,
                   redgifs_token, total_post_len>>
    /\ UNCHANGED engine

\* user.rs 101-107: the Ok arm marks the resource active and the download successful
FetchOkWrite ==
    /\ pc = "fetched"
    /\ posts' = posts
    /\ file_cache' = [file_cache EXCEPT !.status = FileCacheStatus("Active", "Success")]
    /\ disk' = fs_write(file_cache')
    /\ pc' = "parsed"
    /\ UNCHANGED <<upsert, migration, fetching, parsing, downloading, prev_units, cmd, submitted, runs, opts, file_cache_path, redgifs_token, total_post_len>>
    /\ UNCHANGED engine

\* user.rs 108-149: what each RedditProviderError writes and returns
FetchErrStatus(e, st) ==
    CASE e = "NotFound" -> FileCacheStatus("Deleted", "Success")
      [] e = "Suspended" -> FileCacheStatus("Suspended", "Success")
      [] e = "TooManyRequests" -> FileCacheStatus(st.resource, "RateLimit")
      [] e = "Forbidden" -> FileCacheStatus(st.resource, "Forbidden")
      [] OTHER -> FileCacheStatus(st.resource, "Error")

FetchErrReturn(e) == IF e \in {"NotFound", "Suspended"} THEN "ok" ELSE "err"

RedditProviderError == {"NotFound", "Suspended", "TooManyRequests", "Forbidden", "Reqwest"}

\* user.rs 108-149: get_user_submissions returned Err(e)
FetchErrOn(e) ==
    /\ pc = "fetch"
    /\ cmd = "user"
    /\ ~opts.mock
    /\ file_cache' = [file_cache EXCEPT !.status = FetchErrStatus(e, file_cache.status)]
    /\ pc' = FetchErrReturn(e)
    /\ disk' = fs_write(file_cache')
    /\ UNCHANGED <<upsert, migration, fetching, parsing, downloading, prev_units, cmd, submitted, runs, opts, file_cache_path, redgifs_token, posts, total_post_len>>
    /\ UNCHANGED engine

FetchErr == \E e \in RedditProviderError : FetchErrOn(e)

\* reddit_parser.rs 20-32: the posts of the subreddit handler carry neither a media id
\* nor a gallery flag
SubPosts(ps) ==
    [i \in DOMAIN ps |-> [ps[i] EXCEPT !.media_id = None, !.is_gallery = None]]

\* subreddit.rs 47-54: the fetch runs before any cache is loaded; an error is returned as is
SubFetchOk ==
    /\ pc = "load"
    /\ cmd = "subreddit"
    /\ posts' = Flatten(get_subreddit_submissions(Paginate(SubPosts(submitted)),
                                                  file_cache.files, opts.limit))
    /\ pc' = "parsed"
    /\ UNCHANGED <<upsert, migration, fetching, parsing, downloading, prev_units, cmd, submitted, runs, opts, disk, file_cache, file_cache_path, redgifs_token,
                   total_post_len>>
    /\ UNCHANGED engine

\* reddit.rs 240-260: what get_subreddit_submissions can fail with
SubredditProviderError == {"NotFound", "TooManyRequests", "Forbidden", "Reqwest"}

\* subreddit.rs 47-49: get_subreddit_submissions returned Err(e), returned by ?
SubFetchErrOn(e) ==
    /\ pc = "load"
    /\ cmd = "subreddit"
    /\ e \in SubredditProviderError
    /\ pc' = "err"
    /\ UNCHANGED <<upsert, migration, fetching, parsing, downloading, prev_units, cmd, submitted, runs, opts, disk, file_cache, file_cache_path, redgifs_token,
                   posts, total_post_len>>
    /\ UNCHANGED engine

SubFetchErr == \E e \in SubredditProviderError : SubFetchErrOn(e)

\* subreddit.rs 56-108: load the cache (a file that does not parse panics in
\* expect), the skip filter, the semaphore, the progress task
SubPrepare ==
    /\ pc = "parsed"
    /\ cmd = "subreddit"
    /\ lock_ss = Free
    /\ IF disk.exists /\ ~from_str(disk.content[1]).ok
       THEN /\ pc' = "err"
            /\ UNCHANGED <<file_cache, posts_to_download, total_post_len, semaphore, clock>>
       ELSE /\ file_cache' = IF disk.exists THEN from_str(disk.content[1]).cache ELSE file_cache
            /\ posts_to_download' = IF disk.exists
                                    THEN SubredditSkipFilter(posts, file_cache'.files)
                                    ELSE posts
            /\ total_post_len' = Len(posts_to_download')
            /\ semaphore' = opts.concurrency
            /\ IF opts.skip
               THEN pc' = "ok" /\ clock' = clock
               ELSE pc' = "dispatch" /\ clock' = "running"
    /\ UNCHANGED <<upsert, migration, fetching, parsing, downloading, prev_units, cmd, submitted, runs, opts, disk, file_cache_path, redgifs_token, posts,
                   units, download_stats, lock_stats, lock_ss, lock_dp, tx_sent, reported>>

\* ---------------------------------------------------------- update mode
\* user.rs 181-194: position of the first entry with the key of post, 0 if none
RECURSIVE FindFrom(_, _, _)
FindFrom(files, post, i) ==
    IF i > Len(files) THEN 0
    ELSE IF KeyMatches(post, files[i]) THEN i
    ELSE FindFrom(files, post, i + 1)

Find(files, post) == FindFrom(files, post, 1)

\* an update loop that writes a matching entry anew, as not downloaded
UpdateEntryAnew(files, post) ==
    LET i == Find(files, post)
    IN IF i > 0 THEN [files EXCEPT ![i] = FileCacheItemLatest(post, FALSE)]
       ELSE Append(files, FileCacheItemLatest(post, FALSE))

\* user.rs 179-220: one iteration of the update loop
UpdateEntry(files, post) ==
    LET i == Find(files, post)
    IN IF i > 0
       THEN [files EXCEPT ![i] = [@ EXCEPT !.is_gallery = post.is_gallery,
                                           !.media_id = post.media_id,
                                           !.index = post.index]]
       ELSE Append(files, FileCacheItemLatest(post, FALSE))

RECURSIVE UpdateAll(_, _)
UpdateAll(files, ps) ==
    IF ps = <<>> THEN files ELSE UpdateAll(UpdateEntry(files, Head(ps)), Tail(ps))

\* a backfill that takes every entry without a flag for a gallery image
BackfillAsGallery(files) ==
    [i \in DOMAIN files |->
        IF files[i].is_gallery = None THEN [files[i] EXCEPT !.is_gallery = Some(TRUE)]
        ELSE files[i]]

\* user.rs 222-244: is_gallery of the entries that carry none
Backfill(files) ==
    [i \in DOMAIN files |->
        IF files[i].is_gallery = None
        THEN [files[i] EXCEPT !.is_gallery =
                 Some(Cardinality({j \in DOMAIN files : files[j].id = files[i].id}) > 1)]
        ELSE files[i]]

\* user.rs 160-258
UpdateMode ==
    /\ pc = "parsed"
    /\ cmd = "user"
    /\ opts.update
    /\ lock_ss = Free
    /\ file_cache' = [file_cache EXCEPT !.files = Backfill(UpdateAll(file_cache.files, posts))]
    /\ disk' = IF file_cache_path /= None THEN fs_write(file_cache') ELSE disk
    /\ pc' = "ok"
    /\ UNCHANGED <<upsert, migration, fetching, parsing, downloading, prev_units, cmd, submitted, runs, opts, file_cache_path, redgifs_token, posts, total_post_len>>
    /\ UNCHANGED engine

\* ---------------------------------------------------------- upsert_item
\* a cache that pushes every item, whatever the list holds
push_item(files, it) == Append(files, it)

\* a cache in which a failing write does not overwrite a recorded success
upsert_shielded(files, it) ==
    IF \E i \in DOMAIN files :
          files[i].id = it.id /\ files[i].index = it.index
             /\ files[i].media_id = it.media_id /\ files[i].success /\ ~it.success
    THEN files
    ELSE push_item(SelectSeq(files, LAMBDA f : ~(f.id = it.id /\ f.index = it.index
                                                   /\ f.media_id = it.media_id)), it)

\* state.rs 100-134
upsert_item(files, it) ==
    LET i == Find(files, it)
    IN IF i > 0
       THEN [files EXCEPT ![i] =
                [@ EXCEPT !.success = IF ~it.success THEN FALSE ELSE it.success,
                          !.title = it.title,
                          !.url = it.url,
                          !.created_utc = it.created_utc,
                          !.subreddit = it.subreddit,
                          !.is_gallery = it.is_gallery,
                          !.media_id = it.media_id]]
       ELSE Append(files, it)

\* the items upsert_item is called with
MaxLen == 2

Metadata ==
    { [title |-> "t1", url |-> "u1", created_utc |-> 1, subreddit |-> "s1",
       is_gallery |-> None],
      [title |-> "t2", url |-> "u2", created_utc |-> 2, subreddit |-> "s2",
       is_gallery |-> Some(TRUE)] }

Items ==
    { [id |-> id, index |-> index, media_id |-> media_id, success |-> success,
       title |-> md.title, url |-> md.url, created_utc |-> md.created_utc,
       subreddit |-> md.subreddit, is_gallery |-> md.is_gallery] :
         id \in {"a", "b"}, index \in {None, Some(0)}, media_id \in {None, Some("m0")},
         success \in BOOLEAN, md \in Metadata }

\* state.rs 102-110: the fields upsert_item finds an entry by
KeyOf(e) == <<e.id, e.index, e.media_id>>

program == <<prev_units, cmd, submitted, runs, pc, opts, disk, file_cache, file_cache_path,
             redgifs_token, posts, posts_to_download, total_post_len, semaphore, units,
             download_stats, lock_stats, lock_ss, lock_dp, clock, tx_sent, reported>>

UpsertInit ==
    /\ Idle("user", <<>>, NoFile)
    /\ NoUpsert
    /\ NoMigration
    /\ NoFetching
    /\ NoParsing
    /\ NoDownloading

\* one call of upsert_item on the list the calls so far have built
UpsertCall ==
    /\ \E it \in Items :
          /\ Find(self_files, it) > 0 \/ Len(self_files) < MaxLen
          /\ self_files' = upsert_item(self_files, it)
          /\ item' = Some(it)
          /\ last_success' = Append(SelectSeq(last_success, LAMBDA w : w.key /= KeyOf(it)),
                                    [key |-> KeyOf(it), success |-> it.success])
    /\ old_files' = self_files
    /\ UNCHANGED <<migration, fetching, parsing, downloading, downloading, program>>

UpsertSpec == UpsertInit /\ [][UpsertCall]_vars

\* ------------------------------------------------- the load taken alone
\* two entries with every key a version knows, the creation time under the key
\* of the versions up to 3 and under the key of version 4
JsonItem ==
    [id |-> "b", createdUtc |-> 1, created_utc |-> 2, title |-> "t1", subreddit |-> "s1",
     url |-> "u1", success |-> TRUE, index |-> Some(0), isGallery |-> Some(TRUE),
     is_gallery |-> Some(FALSE), media_id |-> Some("m0")]

JsonOther ==
    [id |-> "a", createdUtc |-> 3, created_utc |-> 3, title |-> "t2", subreddit |-> "s2",
     url |-> "u2", success |-> FALSE, index |-> None, isGallery |-> Some(FALSE),
     is_gallery |-> Some(TRUE), media_id |-> Some("m1")]

\* state.rs 199-220: the keys of an entry of version 1 and 2
KeysV1 == {"id", "createdUtc", "title", "subreddit", "url", "success", "index"}

\* state.rs 137-151: the keys of an entry of version 4
KeysLatest == {"id", "created_utc", "title", "subreddit", "url", "success", "index",
               "is_gallery", "media_id"}

\* the entries of a cache file: with the keys of the versions up to 2, of
\* version 3, of version 4, of all of them, and with a key missing
JsonItems ==
    { Restrict(JsonItem, ks) :
        ks \in { KeysV1,
                 KeysV1 \ {"index"},
                 KeysV1 \cup {"isGallery"},
                 KeysLatest,
                 KeysLatest \ {"is_gallery", "media_id"},
                 KeysV1 \cup KeysLatest \cup {"isGallery"},
                 KeysV1 \ {"success"},
                 KeysV1 \ {"createdUtc"},
                 KeysV1 \ {"title"} } }
    \cup { Restrict(JsonOther, ks) : ks \in {KeysV1, KeysLatest} }

JsonFiles == UNION {[1..n -> JsonItems] : n \in 0..MaxLen}

JsonStatuses ==
    { [resource |-> "Deleted", lastDownload |-> "RateLimit"],
      [resource |-> "Deleted", last_download |-> "RateLimit"] }

\* the cache files a load is given: every version up to one that is to come,
\* and files without the version, the status or the files
Payloads ==
    { Restrict([version |-> v, status |-> s, files |-> f], ks) :
        v \in 1..5, s \in JsonStatuses, f \in JsonFiles,
        ks \in { {"version", "status", "files"}, {"status", "files"},
                 {"version", "files"}, {"version", "status"} } }

CacheInit ==
    /\ Idle("user", <<>>, NoFile)
    /\ NoUpsert
    /\ NoFetching
    /\ NoParsing
    /\ NoDownloading
    /\ \E p \in Payloads : payload = Some(p) /\ cache_value = Some(p)
    /\ trail = <<>>
    /\ result = None
    /\ reloaded = None

\* the version the cache has once the call has returned or has called again
VersionAfter(c, version) ==
    IF c.recurse THEN c.value["version"]
    ELSE IF c.result.ok THEN c.result.version
    ELSE version

\* state.rs 241-299: one call of get_cache_from_serde_value
LoadCall ==
    /\ cache_value /= None
    /\ result = None
    /\ LET c == Call(cache_value[1])
       IN /\ cache_value' = IF c.recurse THEN Some(c.value) ELSE cache_value
          /\ result' = IF c.recurse THEN None ELSE Some(c.result)
          /\ trail' = IF ~HasVersion(cache_value[1]) THEN trail
                      ELSE LET version == cache_value[1]["version"]
                               seen == IF trail = <<>> THEN <<version>> ELSE trail
                               after == VersionAfter(c, version)
                           IN IF after /= version THEN Append(seen, after) ELSE seen
    /\ UNCHANGED <<payload, reloaded, upsert, fetching, parsing, downloading, downloading, program>>

\* the cache that was loaded is written by to_string and loaded again
Reload ==
    /\ result /= None
    /\ result[1].ok
    /\ reloaded = None
    /\ reloaded' = Some(from_str(to_string(result[1].cache)))
    /\ UNCHANGED <<payload, cache_value, trail, result, upsert, fetching, parsing, downloading, downloading, program>>

CacheSpec == CacheInit /\ [][LoadCall \/ Reload]_vars

\* ------------------------------------------------- the fetch taken alone
\* the responses of a listing, and the requests a fetch is followed for
MaxPages == 3
MaxRequests == 4

\* the pages a listing is made of
PageChoices == { <<Imgur>>, <<Gallery0, Gallery1>> }

\* the listings of the API: any pages, the cursor of a response names any
\* response of the listing, the first and the response itself included
ApiListings ==
    UNION { [1..n -> [children : PageChoices, after : {None} \cup {Some(k) : k \in 1..n}]] :
              n \in 1..MaxPages }

Endpoints == {"user", "subreddit", "search"}

\* what a listing request is answered when it is not answered a listing
FailStatuses == {"transport", "429", "404", "403", "undecodable"}

\* what the about request is answered
ProbeAnswers == {"transport", "429", "404", "undecodable", "suspended", "active"}

\* reddit.rs 72-98: gen_user_about_url
gen_user_about_url(answer) ==
    CASE answer = "transport" -> Err("ReqwestMiddleware")
      [] answer = "429" -> Err("TooManyRequests")
      [] answer = "404" -> Err("NotFound")
      [] answer = "undecodable" -> Err("Reqwest")
      [] answer = "suspended" -> [ok |-> TRUE, is_suspended |-> TRUE]
      [] answer = "active" -> [ok |-> TRUE, is_suspended |-> FALSE]

\* the user listing asks the about endpoint when it is answered 403
Probing(endpoint, status) == endpoint = "user" /\ status = "403"

\* a denial that returns the error of the about request
ListingErrorOfProbe(endpoint, status, about) ==
    CASE status = "transport" -> "ReqwestMiddleware"
      [] status = "429" -> "TooManyRequests"
      [] status = "404" -> "NotFound"
      [] status = "403" ->
           IF ~Probing(endpoint, status) THEN "Forbidden"
           ELSE IF ~about.ok THEN about.error
           ELSE IF about.is_suspended THEN "Suspended" ELSE "Forbidden"
      [] status = "undecodable" -> "Reqwest"

\* reddit.rs 126-151, 240-260, 346-366: the error the request loop returns
ListingError(endpoint, status, about) ==
    CASE status = "transport" -> "ReqwestMiddleware"
      [] status = "429" -> "TooManyRequests"
      [] status = "404" -> "NotFound"
      [] status = "403" ->
           IF ~Probing(endpoint, status) THEN "Forbidden"
           ELSE IF ~about.ok THEN "Forbidden"
           ELSE IF about.is_suspended THEN "Suspended" ELSE "Forbidden"
      [] status = "undecodable" -> "Reqwest"

FetchInit ==
    /\ Idle("user", <<>>, NoFile)
    /\ NoUpsert
    /\ NoMigration
    /\ NoParsing
    /\ NoDownloading
    /\ \E e \in Endpoints, ls \in ApiListings : api = Some([endpoint |-> e, listing |-> ls])
    /\ \E fs \in {<<>>, <<FileCacheItemLatest(Imgur, FALSE)>>},
          l \in {None} \cup {Some(n) : n \in 0..2} :
          fetch_in = Some([files |-> fs, limit |-> l])
    /\ fetch_st = FetchStart
    /\ requests = <<>>
    /\ probes = <<>>
    /\ fetch_result = None

\* reddit.rs 120-185: a request of the loop that is answered a page of the listing
FetchPage ==
    /\ api /= None
    /\ fetch_result = None
    /\ Len(requests) < MaxRequests
    /\ LET res == Respond(api[1].listing, fetch_st.after)
           next == Iteration(res, fetch_in[1].files, fetch_in[1].limit, fetch_st)
       IN /\ requests' = Append(requests, [after |-> fetch_st.after, status |-> "200",
                                           returned |-> res.after])
          /\ fetch_st' = next
          /\ fetch_result' = IF next.break
                             THEN Some([ok |-> TRUE, responses |-> next.responses])
                             ELSE None
    /\ UNCHANGED <<api, fetch_in, probes, upsert, migration, parsing, downloading, program>>

\* a loop that returns the responses it collected when a request fails
ReturnCollected(st, e) == [ok |-> TRUE, responses |-> st.responses]

\* reddit.rs 126-151: return Err(e) leaves the loop and the function; the
\* responses collected so far are a local of the function and are dropped
ReturnErr(st, e) == Err(e)

\* reddit.rs 126-151: a request of the loop that fails, is answered 429, 404 or
\* 403, or a body that is no listing
FetchFail ==
    /\ api /= None
    /\ fetch_result = None
    /\ Len(requests) < MaxRequests
    /\ \E status \in FailStatuses, answer \in ProbeAnswers :
          /\ requests' = Append(requests, [after |-> fetch_st.after, status |-> status,
                                           returned |-> None])
          /\ probes' = IF Probing(api[1].endpoint, status) THEN Append(probes, answer)
                       ELSE probes
          /\ fetch_result' = Some(ReturnErr(fetch_st,
                                            ListingError(api[1].endpoint, status,
                                                         gen_user_about_url(answer))))
    /\ UNCHANGED <<api, fetch_in, fetch_st, upsert, migration, parsing, downloading, program>>

FetchSpec == FetchInit /\ [][FetchPage \/ FetchFail]_vars

\* every request of the loop is answered
FairFetchSpec == FetchSpec /\ WF_vars(FetchPage \/ FetchFail)

\* ------------------------------------------------------------ the engine
\* user.rs 260-320: the skip filter, the stats, the semaphore, the progress task
Prepare ==
    /\ pc = "parsed"
    /\ cmd = "user"
    /\ ~opts.update
    /\ lock_ss = Free
    /\ posts_to_download' = IF disk.exists THEN UserSkipFilter(posts, file_cache.files)
                            ELSE posts
    /\ total_post_len' = Len(posts_to_download')
    /\ semaphore' = opts.concurrency
    /\ IF opts.skip
       THEN pc' = "ok" /\ clock' = clock
       ELSE pc' = "dispatch" /\ clock' = "running"
    /\ UNCHANGED <<upsert, migration, fetching, parsing, downloading, prev_units, cmd, submitted, runs, opts, disk, file_cache, file_cache_path, redgifs_token, posts,
                   units, download_stats, lock_stats, lock_ss, lock_dp, tx_sent, reported>>

\* a semaphore that hands out a permit without counting it
AcquireUncounted(n) == n

\* Semaphore::acquire_owned and the drop of an OwnedSemaphorePermit
Acquire(n) == n - 1
Release(n) == n + 1

Unit(post) == [post |-> post, st |-> "download", outcome |-> "none", bytes |-> 0,
               permit |-> TRUE, token |-> None, finished |-> FALSE]

\* user.rs 322-331: take a permit, spawn the task of the next post
Dispatch ==
    /\ pc = "dispatch"
    /\ posts_to_download /= <<>>
    /\ semaphore > 0
    /\ semaphore' = Acquire(semaphore)
    /\ units' = Append(units, Unit(Head(posts_to_download)))
    /\ posts_to_download' = Tail(posts_to_download)
    /\ pc' = "join"
    /\ UNCHANGED <<upsert, migration, fetching, parsing, downloading, prev_units, cmd, submitted, runs, opts, disk, file_cache, file_cache_path, redgifs_token, posts,
                   total_post_len, download_stats, lock_stats, lock_ss, lock_dp, clock,
                   tx_sent, reported>>

\* user.rs 400: .await? on the JoinHandle of the task just spawned
Join ==
    /\ pc = "join"
    /\ units[Len(units)].st \in {"done", "panicked"}
    /\ IF units[Len(units)].st = "panicked"
       THEN pc' = "err" /\ clock' = "aborted"
       ELSE pc' = "dispatch" /\ clock' = clock
    /\ UNCHANGED <<upsert, migration, fetching, parsing, downloading, prev_units, cmd, submitted, runs, opts, disk, file_cache, file_cache_path, redgifs_token, posts,
                   posts_to_download, total_post_len, semaphore, units, download_stats,
                   lock_stats, lock_ss, lock_dp, tx_sent, reported>>

\* ------------------------------------------------------------ the downloader
HttpProviders == {"RedditImage", "RedditGalleryImage", "RedditGifVideo"}
ToolProviders == {"RedditVideo", "YoutubeVideo"}

\* a header value that is not visible ASCII: HeaderValue::to_str fails on it
NotAscii == <<"\\xff">>

\* the content-type header of a response, as the pieces of its value
ContentTypes ==
    { None, Some(<<"text/html">>), Some(<<"text/html", "; charset=utf-8">>),
      Some(<<"image/jpeg">>), Some(NotAscii) }

\* what a call of download_crawler_post meets: the request is sent or fails,
\* the content-type and the body of the response (None: reading it fails), how
\* far writing the file gets, whether yt-dlp is spawned, its exit status and
\* the file found at the path when it has exited
Env(send, content_type, body, io, spawn, exit, file) ==
    [send |-> send, content_type |-> content_type, body |-> body, disk |-> io,
     spawn |-> spawn, exit |-> exit, file |-> file]

Bodies == {None} \cup {Some(n) : n \in 1..MaxBytes}

Envs(provider) ==
    CASE provider \in HttpProviders \cup {"RedgifsImage", "RedgifsVideo"} ->
            {Env(sd, None, b, d, TRUE, TRUE, None) :
                sd \in BOOLEAN, b \in Bodies, d \in {"ok", "create", "write"}}
      [] provider = "ImgurImage" ->
            {Env(sd, ct, b, d, TRUE, TRUE, None) :
                sd \in BOOLEAN, ct \in ContentTypes, b \in Bodies, d \in {"ok", "create", "write"}}
      [] provider \in ToolProviders ->
            {Env(TRUE, None, None, d, sp, ex, f) :
                d \in {"ok", "time"}, sp \in BOOLEAN, ex \in BOOLEAN, f \in Bodies}
      [] provider = "None" -> {Env(TRUE, None, None, "ok", TRUE, TRUE, None)}

\* what the call ends with: Ok(Received..), Err or a panic, the bytes it reports,
\* the file it leaves at the path, and whether the retrieval wrote its whole file
Ends(received, bytes, file, finished) ==
    [result |-> received, bytes |-> bytes, file |-> file, finished |-> finished]

\* downloader.rs 97-160: the match on the provider
ProviderHandlerReturned(provider, env) ==
    CASE provider \in HttpProviders \cup {"RedgifsImage", "RedgifsVideo"} ->
            IF env.send THEN "HttpResponse" ELSE "Err"
      [] provider \in ToolProviders ->
            IF env.spawn THEN "ThirdPartyResponse" ELSE "Panic"
      [] provider = "ImgurImage" ->
            IF ~env.send THEN "Err"
            ELSE IF env.content_type /= None /\ env.content_type[1] /= NotAscii
                    /\ env.content_type[1] = <<"text/html">>
            THEN "NotFound"
            ELSE "HttpResponse"
      [] provider = "None" -> "Unhandled"

\* downloader.rs 56-180
download_crawler_post(provider, env) ==
    LET response == ProviderHandlerReturned(provider, env)
    IN  CASE response = "HttpResponse" ->
                 IF env.body = None \/ env.disk = "create" THEN Ends("Err", 0, None, FALSE)
                 ELSE IF env.disk = "write"
                 THEN Ends("Err", 0, Some([size |-> 0, whole |-> FALSE]), FALSE)
                 ELSE Ends("Bytes", env.body[1], Some([size |-> env.body[1], whole |-> TRUE]), TRUE)
          [] response = "ThirdPartyResponse" ->
                 IF env.file = None THEN Ends("Err", 0, None, FALSE)
                 ELSE IF env.disk = "time"
                 THEN Ends("Err", 0, Some([size |-> env.file[1], whole |-> env.exit]), FALSE)
                 ELSE Ends("Bytes", env.file[1],
                           Some([size |-> env.file[1], whole |-> env.exit]), env.exit)
          [] response = "NotFound" -> Ends("NotFound", 0, None, FALSE)
          [] response = "Unhandled" -> Ends("Unhandled", 0, None, FALSE)
          [] response \in {"Err", "Panic"} -> Ends(response, 0, None, FALSE)

\* downloader.rs 97-180: what download_crawler_post can end with, per provider
ProviderOutcomes(provider) ==
    {download_crawler_post(provider, env).result : env \in Envs(provider)}

unit_frame == <<upsert, migration, fetching, parsing, downloading, prev_units, cmd, submitted, runs, opts, disk, file_cache_path, posts,
                posts_to_download, total_post_len, pc, clock, tx_sent, reported>>

RedgifsProviders == {"RedgifsImage", "RedgifsVideo"}

\* user.rs 332: download_crawler_post returns, or panics and unwinds the task
UnitDownload(i) ==
    /\ units[i].st = "download"
    /\ units[i].post.provider \notin RedgifsProviders
    /\ \E env \in Envs(units[i].post.provider) :
          LET r == download_crawler_post(units[i].post.provider, env)
          IN  IF r.result = "Panic"
              THEN /\ units' = [units EXCEPT ![i].st = "panicked", ![i].outcome = r.result,
                                             ![i].permit = FALSE]
                   /\ semaphore' = Release(semaphore)
              ELSE /\ units' = [units EXCEPT ![i].st = "result", ![i].outcome = r.result,
                                             ![i].bytes = r.bytes, ![i].finished = r.finished]
                   /\ semaphore' = semaphore
    /\ UNCHANGED <<file_cache, redgifs_token, download_stats, lock_stats, lock_ss, lock_dp>>
    /\ UNCHANGED unit_frame

\* redgifs.rs 125: download_redgifs_media locks the shared state until it returns
UnitRedgifsLock(i) ==
    /\ units[i].st = "download"
    /\ units[i].post.provider \in RedgifsProviders
    /\ lock_ss = Free
    /\ lock_ss' = Task(i)
    /\ units' = [units EXCEPT ![i].st = "token"]
    /\ UNCHANGED <<file_cache, redgifs_token, download_stats, semaphore, lock_stats, lock_dp>>
    /\ UNCHANGED unit_frame

\* a unit that takes no token for published
NeverPublished(token) == FALSE

\* redgifs.rs 127-129: the match on state.redgifs_token
Published(token) == token /= None

\* redgifs.rs 127-134: reuse the published token, or request one and publish it;
\* the token a request is answered is the one of the unit that sent it
UnitRedgifsToken(i) ==
    /\ units[i].st = "token"
    /\ lock_ss = Task(i)
    /\ IF Published(redgifs_token)
       THEN /\ units' = [units EXCEPT ![i].st = "media", ![i].token = redgifs_token]
            /\ UNCHANGED <<redgifs_token, lock_ss>>
       ELSE \/ /\ redgifs_token' = Some(i)
               /\ units' = [units EXCEPT ![i].st = "media", ![i].token = Some(i)]
               /\ lock_ss' = lock_ss
            \/ /\ units' = [units EXCEPT ![i].st = "result", ![i].outcome = "Err"]
               /\ lock_ss' = Free
               /\ redgifs_token' = redgifs_token
    /\ UNCHANGED <<file_cache, download_stats, semaphore, lock_stats, lock_dp>>
    /\ UNCHANGED unit_frame

\* redgifs.rs 136-177, downloader.rs 162-171: the media requests, then the body is written
UnitRedgifsMedia(i) ==
    /\ units[i].st = "media"
    /\ lock_ss = Task(i)
    /\ lock_ss' = Free
    /\ \E env \in Envs(units[i].post.provider) :
          LET r == download_crawler_post(units[i].post.provider, env)
          IN  units' = [units EXCEPT ![i].st = "result", ![i].outcome = r.result,
                                     ![i].bytes = r.bytes, ![i].finished = r.finished]
    /\ UNCHANGED <<file_cache, redgifs_token, download_stats, semaphore, lock_stats, lock_dp>>
    /\ UNCHANGED unit_frame

\* a file whose count overwrites the counter instead of adding to it
CountFileOverwrite(stats, n) ==
    [stats EXCEPT !.files_downloaded = 1, !.bytes_downloaded = n]

\* user.rs 337-338
CountFile(stats, n) ==
    [stats EXCEPT !.files_downloaded = @ + 1, !.bytes_downloaded = @ + n]

\* a failure that is not counted
CountFailureLost(stats) == stats

\* user.rs 381, 385, 395
CountFailure(stats) == [stats EXCEPT !.downloads_failed = @ + 1]

\* user.rs 336-338: lock the stats, count the file and its bytes
UnitBytesStats(i) ==
    /\ units[i].st = "result"
    /\ units[i].outcome = "Bytes"
    /\ lock_stats = Free
    /\ lock_stats' = Task(i)
    /\ download_stats' = CountFile(download_stats, units[i].bytes)
    /\ units' = [units EXCEPT ![i].st = "cache"]
    /\ UNCHANGED <<file_cache, redgifs_token, semaphore, lock_ss, lock_dp>>
    /\ UNCHANGED unit_frame

\* a unit that records no entry
RecordNothing(files, post, success) == files

\* user.rs 340-355 and 364-379: how a finished unit records its entry
RecordEntry(files, post, success) ==
    Append(files, IF cmd = "user" THEN FileCacheItemLatest(post, success)
                  ELSE FileCacheItem(post, success))

\* user.rs 340-355: lock the shared state, record the success entry
UnitBytesCache(i) ==
    /\ units[i].st = "cache"
    /\ lock_ss = Free
    /\ file_cache' = [file_cache EXCEPT !.files = RecordEntry(@, units[i].post, TRUE)]
    /\ units' = [units EXCEPT ![i].st = "progress"]
    /\ UNCHANGED <<redgifs_token, download_stats, semaphore, lock_stats, lock_ss, lock_dp>>
    /\ UNCHANGED unit_frame

\* user.rs 357-362, 398: update the progress bar, release the stats, drop the permit
UnitBytesProgress(i) ==
    /\ units[i].st = "progress"
    /\ lock_dp = Free
    /\ lock_stats' = Free
    /\ semaphore' = Release(semaphore)
    /\ units' = [units EXCEPT ![i].st = "done", ![i].permit = FALSE]
    /\ UNCHANGED <<file_cache, redgifs_token, download_stats, lock_ss, lock_dp>>
    /\ UNCHANGED unit_frame

\* user.rs 364-379: lock the shared state, record the failure entry
UnitNotFoundCache(i) ==
    /\ units[i].st = "result"
    /\ units[i].outcome = "NotFound"
    /\ lock_ss = Free
    /\ file_cache' = [file_cache EXCEPT !.files = RecordEntry(@, units[i].post, FALSE)]
    /\ units' = [units EXCEPT ![i].st = "failed"]
    /\ UNCHANGED <<redgifs_token, download_stats, semaphore, lock_stats, lock_ss, lock_dp>>
    /\ UNCHANGED unit_frame

\* user.rs 380-381, 384-385, 394-395, 398: count the failure, drop the permit
UnitFailed(i) ==
    /\ \/ units[i].st = "failed"
       \/ units[i].st = "result" /\ units[i].outcome \in {"Failed", "Err"}
    /\ lock_stats = Free
    /\ download_stats' = CountFailure(download_stats)
    /\ semaphore' = Release(semaphore)
    /\ units' = [units EXCEPT ![i].st = "done", ![i].permit = FALSE]
    /\ UNCHANGED <<file_cache, redgifs_token, lock_stats, lock_ss, lock_dp>>
    /\ UNCHANGED unit_frame

\* user.rs 388-390, 398: nothing is recorded, drop the permit
UnitUnhandled(i) ==
    /\ units[i].st = "result"
    /\ units[i].outcome = "Unhandled"
    /\ semaphore' = Release(semaphore)
    /\ units' = [units EXCEPT ![i].st = "done", ![i].permit = FALSE]
    /\ UNCHANGED <<file_cache, redgifs_token, download_stats, lock_stats, lock_ss, lock_dp>>
    /\ UNCHANGED unit_frame

\* user.rs 312-320: the progress task ticks the bar until the message arrives
ClockTick ==
    /\ clock = "running"
    /\ ~tx_sent
    /\ lock_dp = Free
    /\ UNCHANGED vars

ClockStop ==
    /\ clock = "running"
    /\ tx_sent
    /\ clock' = "stopped"
    /\ UNCHANGED <<upsert, migration, fetching, parsing, downloading, prev_units, cmd, submitted, runs, pc, opts, disk, file_cache, file_cache_path, redgifs_token,
                   posts, posts_to_download, total_post_len, semaphore, units,
                   download_stats, lock_stats, lock_ss, lock_dp, tx_sent, reported>>

fin_frame == <<upsert, migration, fetching, parsing, downloading, prev_units, cmd, submitted, runs, opts, file_cache, file_cache_path, redgifs_token, posts,
               posts_to_download, total_post_len, semaphore, units, download_stats,
               lock_ss, lock_dp, clock>>

\* a handler that never tells the progress task to stop
SendNothing == FALSE

\* user.rs 403: tx.send(true)
SendStop == TRUE

\* user.rs 403-404: every post was dispatched and joined; tell the progress task to stop
FinSend ==
    /\ pc = "dispatch"
    /\ posts_to_download = <<>>
    /\ tx_sent' = SendStop
    /\ pc' = "fin_stats"
    /\ UNCHANGED <<disk, lock_stats, reported>>
    /\ UNCHANGED fin_frame

\* user.rs 405
FinStats ==
    /\ pc = "fin_stats"
    /\ lock_stats = Free
    /\ lock_stats' = Main
    /\ pc' = "fin_report"
    /\ UNCHANGED <<disk, tx_sent, reported>>
    /\ UNCHANGED fin_frame

\* user.rs 406-410
FinReport ==
    /\ pc = "fin_report"
    /\ lock_dp = Free
    /\ reported' = TRUE
    /\ pc' = "fin_join"
    /\ UNCHANGED <<disk, lock_stats, tx_sent>>
    /\ UNCHANGED fin_frame

\* user.rs 412
FinJoin ==
    /\ pc = "fin_join"
    /\ clock = "stopped"
    /\ pc' = "fin_persist"
    /\ UNCHANGED <<disk, lock_stats, tx_sent, reported>>
    /\ UNCHANGED fin_frame

\* user.rs 414-418: persist the cache and return
Persist(c) == fs_write(c)

FinPersist ==
    /\ pc = "fin_persist"
    /\ lock_ss = Free
    /\ disk' = Persist(file_cache)
    /\ lock_stats' = Free
    /\ pc' = "ok"
    /\ UNCHANGED <<tx_sent, reported>>
    /\ UNCHANGED fin_frame

Next ==
    \/ StartRun
    \/ LoadCache
    \/ FetchMock
    \/ FetchOk
    \/ FetchOkWrite
    \/ FetchErr
    \/ SubFetchOk
    \/ SubFetchErr
    \/ SubPrepare
    \/ UpdateMode
    \/ Prepare
    \/ Dispatch
    \/ Join
    \/ \E i \in DOMAIN units : UnitDownload(i)
    \/ \E i \in DOMAIN units : UnitRedgifsLock(i)
    \/ \E i \in DOMAIN units : UnitRedgifsToken(i)
    \/ \E i \in DOMAIN units : UnitRedgifsMedia(i)
    \/ \E i \in DOMAIN units : UnitBytesStats(i)
    \/ \E i \in DOMAIN units : UnitBytesCache(i)
    \/ \E i \in DOMAIN units : UnitBytesProgress(i)
    \/ \E i \in DOMAIN units : UnitNotFoundCache(i)
    \/ \E i \in DOMAIN units : UnitFailed(i)
    \/ \E i \in DOMAIN units : UnitUnhandled(i)
    \/ ClockTick
    \/ ClockStop
    \/ FinSend
    \/ FinStats
    \/ FinReport
    \/ FinJoin
    \/ FinPersist

Spec == Init /\ [][Next]_vars

\* the tokio runtime runs every task that is ready: the handler, the download
\* tasks and the progress task each take their next step when it stays enabled
MainStep ==
    \/ LoadCache \/ FetchMock \/ FetchOk \/ FetchOkWrite \/ FetchErr
    \/ SubFetchOk \/ SubFetchErr \/ SubPrepare
    \/ UpdateMode \/ Prepare \/ Dispatch \/ Join
    \/ FinSend \/ FinStats \/ FinReport \/ FinJoin \/ FinPersist

UnitStep ==
    \E i \in DOMAIN units :
       \/ UnitDownload(i) \/ UnitRedgifsLock(i) \/ UnitRedgifsToken(i) \/ UnitRedgifsMedia(i)
       \/ UnitBytesStats(i) \/ UnitBytesCache(i) \/ UnitBytesProgress(i)
       \/ UnitNotFoundCache(i) \/ UnitFailed(i) \/ UnitUnhandled(i)

FairSpec ==
    /\ Init /\ [][Next]_vars
    /\ WF_vars(MainStep)
    /\ WF_vars(UnitStep)
    /\ WF_vars(ClockStop)

\* ------------------------------------------------------------- claims
\* the cache file loads, and the cache it loads as
Loads == disk.exists /\ from_str(disk.content[1]).ok

OnDisk == from_str(disk.content[1]).cache

\* units that hold a permit: dispatched and not yet completed
InFlight == {i \in DOMAIN units : units[i].permit}

Ended == pc \in {"ok", "err"}

\* the invocation got as far as creating the semaphore and spawning the progress task
EngineStarted == clock /= "none"

OutcomeCount(os) == Cardinality({i \in DOMAIN units : units[i].outcome \in os})

\* equality of composite keys: an absent media id equals only an absent media id
SameKey(a, b) == a.id = b.id /\ a.index = b.index /\ a.media_id = b.media_id

DistinctKeys(fs) == \A i, j \in DOMAIN fs : i /= j => ~SameKey(fs[i], fs[j])

HasSuccess(p, fs) == \E i \in DOMAIN fs : SameKey(p, fs[i]) /\ fs[i].success

(* C1: in every state the number of units holding a permit is at most the
   concurrency limit, and once the semaphore exists the free permits plus the
   units in flight equal the limit. *)
C1_SlotsBounded ==
    /\ Cardinality(InFlight) <= opts.concurrency
    /\ EngineStarted => semaphore + Cardinality(InFlight) = opts.concurrency

C1_Witness ==
    /\ opts.concurrency = 2
    /\ Cardinality(InFlight) = 1
    /\ semaphore = 1

(* C2: no two entries of the cache, in memory or on disk, share a composite
   key (id, index, media_id). *)
C2_UniqueKeys ==
    /\ DistinctKeys(file_cache.files)
    /\ Loads => DistinctKeys(OnDisk.files)

(* C3: when a run completes, files_downloaded + downloads_failed + the units
   that ended Unhandled equal the descriptors that were submitted and not
   skipped, each of which was dispatched. *)
C3_StatsAccount ==
    (pc = "ok" /\ clock = "stopped") =>
        /\ posts_to_download = <<>>
        /\ Len(units) = total_post_len
        /\ download_stats.files_downloaded + download_stats.downloads_failed
             + OutcomeCount({"Unhandled"}) = total_post_len

C3_Witness ==
    /\ pc = "ok" /\ clock = "stopped"
    /\ total_post_len < Len(posts)
    /\ download_stats.downloads_failed = 1
    /\ OutcomeCount({"Unhandled"}) = 1

(* C4: under fair scheduling every started run reaches its end, and at the end
   no unit holds a permit and no lock is held: every unit released its slot
   whatever its outcome and no task waits forever for a slot or a lock. *)
C4_Progress ==
    /\ [](Ended => InFlight = {} /\ lock_stats = Free /\ lock_ss = Free /\ lock_dp = Free)
    /\ (pc \notin {"idle", "ok", "err"}) ~> Ended

C4_Witness ==
    /\ pc = "err"
    /\ \E i \in DOMAIN units : units[i].outcome = "Panic" /\ ~units[i].permit
    /\ semaphore = opts.concurrency

(* C5: when a run that started the engine has returned, no unit holds a
   permit, the progress reporter was stopped and the cache file holds the
   in-memory cache. *)
C5_ReturnFinalized ==
    (Ended /\ EngineStarted) =>
        /\ InFlight = {}
        /\ reported /\ clock = "stopped"
        /\ Loads /\ OnDisk = file_cache

(* C6: a unit that ends Bytes(n) adds 1 to files_downloaded and n to
   bytes_downloaded, leaves downloads_failed alone, and once it has recorded
   its entry exactly one entry has its key, with success = true. *)
C6_BytesUnit ==
    [][\A i \in DOMAIN units \cap DOMAIN units' :
          /\ (units[i].st = "result" /\ units[i].outcome = "Bytes"
                /\ units'[i].st /= "result") =>
                download_stats' =
                    [files_downloaded |-> download_stats.files_downloaded + 1,
                     bytes_downloaded |-> download_stats.bytes_downloaded + units[i].bytes,
                     downloads_failed |-> download_stats.downloads_failed]
          /\ (units[i].st = "cache" /\ units'[i].st /= "cache") =>
                LET fs == file_cache'.files
                    hits == {j \in DOMAIN fs : SameKey(units[i].post, fs[j])}
                IN Cardinality(hits) = 1 /\ \A j \in hits : fs[j].success]_vars

(* C7: a unit that ends NotFound appends a success = false entry for its key
   and adds 1 to downloads_failed only; a unit that ends Failed adds 1 to
   downloads_failed only and leaves the cache alone; a unit that ends Unhandled
   changes no counter and no entry. *)
C7_FailureUnits ==
    [][\A i \in DOMAIN units \cap DOMAIN units' :
          LET o == units'[i].outcome
              moved == units'[i].st /= units[i].st
              bump == [download_stats EXCEPT !.downloads_failed = @ + 1]
              entry == \E j \in DOMAIN file_cache'.files :
                          /\ j > Len(file_cache.files)
                          /\ SameKey(units[i].post, file_cache'.files[j])
                          /\ ~file_cache'.files[j].success
              prefix == SubSeq(file_cache'.files, 1, Len(file_cache.files)) = file_cache.files
          IN /\ (moved /\ o = "NotFound" /\ units[i].st = "result") =>
                   /\ entry /\ prefix /\ Len(file_cache'.files) = Len(file_cache.files) + 1
                   /\ download_stats' = download_stats
             /\ (moved /\ o = "NotFound" /\ units[i].st = "failed") =>
                   /\ file_cache' = file_cache
                   /\ download_stats' = bump
             /\ (moved /\ o \in {"Failed", "Err"} /\ units[i].st = "result") =>
                   /\ file_cache' = file_cache
                   /\ download_stats' = bump
             /\ (moved /\ o = "Unhandled") =>
                   /\ file_cache' = file_cache
                   /\ download_stats' = download_stats
             /\ (moved /\ units[i].st = "download") =>
                   /\ file_cache' = file_cache
                   /\ download_stats' = download_stats]_vars

C7_Witness ==
    \E i, j, k \in DOMAIN units :
       /\ units[i].st = "done" /\ units[i].outcome = "Err"
       /\ units[j].st = "done" /\ units[j].outcome = "NotFound"
       /\ units[k].st = "done" /\ units[k].outcome = "Unhandled"
       /\ download_stats = [files_downloaded |-> 0, bytes_downloaded |-> 0,
                            downloads_failed |-> 2]

(* C8: a run in which a unit failed still dispatches every other descriptor,
   reports the final stats and persists the entries the units recorded. *)
C8_FailureIsolated ==
    (Ended /\ EngineStarted /\ OutcomeCount({"Err", "Failed", "Panic"}) > 0) =>
        /\ Len(units) = total_post_len
        /\ reported
        /\ Loads /\ OnDisk.files = file_cache.files

(* C9: in every handler the skip filter drops a descriptor if and only if the
   cache holds an entry with the same composite key and success = true. *)
C9_SkipFilter ==
    (pc = "dispatch" /\ units = <<>>) =>
        posts_to_download =
            SelectSeqBy(posts, {p \in Range(posts) : ~HasSuccess(p, file_cache.files)})

(* C10: upsert_item on a list with pairwise distinct keys yields a list with
   pairwise distinct keys; on a key match the length is unchanged and the
   matching entry takes the incoming success, title, url, created_utc,
   subreddit, is_gallery and media_id; otherwise the incoming entry is
   appended; every other entry and the order are unchanged. *)
C10_Upsert ==
    item /= None =>
        LET it == item[1]
            hits == {i \in DOMAIN old_files : SameKey(old_files[i], it)}
        IN /\ DistinctKeys(old_files)
           /\ DistinctKeys(self_files)
           /\ IF hits /= {}
              THEN /\ Len(self_files) = Len(old_files)
                   /\ \A i \in DOMAIN old_files :
                         IF i \in hits
                         THEN /\ self_files[i].id = old_files[i].id
                              /\ self_files[i].index = old_files[i].index
                              /\ self_files[i].success = it.success
                              /\ self_files[i].title = it.title
                              /\ self_files[i].url = it.url
                              /\ self_files[i].created_utc = it.created_utc
                              /\ self_files[i].subreddit = it.subreddit
                              /\ self_files[i].is_gallery = it.is_gallery
                              /\ self_files[i].media_id = it.media_id
                         ELSE self_files[i] = old_files[i]
              ELSE self_files = Append(old_files, it)

C10_Witness ==
    /\ item /= None
    /\ Len(old_files) = 2
    /\ SameKey(old_files[1], item[1])
    /\ old_files[1].success /= item[1].success
    /\ old_files[1].title /= item[1].title
    /\ self_files[1] = item[1]
    /\ self_files[2] = old_files[2]

(* C11: after any sequence of upsert_item calls the entry of a key carries the
   success flag of the last call for that key, whichever way the flag changed,
   and a call repeated on its own result changes nothing. *)
C11_LastWriteWins ==
    /\ \A w \in Range(last_success) :
          /\ \E i \in DOMAIN self_files : KeyOf(self_files[i]) = w.key
          /\ \A i \in DOMAIN self_files :
                KeyOf(self_files[i]) = w.key => self_files[i].success = w.success
    /\ \A it \in Items :
          (Find(self_files, it) > 0 \/ Len(self_files) < MaxLen) =>
             upsert_item(upsert_item(self_files, it), it) = upsert_item(self_files, it)

C11_Witness ==
    /\ item /= None
    /\ Len(last_success) = 2
    /\ \E i \in DOMAIN old_files :
          /\ KeyOf(old_files[i]) = KeyOf(item[1])
          /\ old_files[i].success /\ ~item[1].success
          /\ ~self_files[i].success

\* the step in which the fetcher returns Ok(responses) to the handler
FetchReturned ==
    \/ cmd = "user" /\ pc = "fetch" /\ pc' = "fetched"
    \/ cmd = "subreddit" /\ pc = "load" /\ pc' = "parsed"

\* the pages of the listing as the handler's fetcher sees them
ListingPages == Paginate(IF cmd = "user" THEN submitted ELSE SubPosts(submitted))

\* the pages the request loop asks for under options.limit
Requested(limit) ==
    {k \in DOMAIN ListingPages : limit = None \/ k <= limit[1]}

CachedId(p, files) == \E i \in DOMAIN files : files[i].id = p.id

(* C12: every batch the fetcher returns is non-empty and holds no post whose id
   is the id of a cache entry, whatever the entry's success flag, index or media
   id; a requested page left empty by the stripping is not returned; the fetcher
   changes neither the cache nor the cache file. *)
C12_FetchedBatches ==
    [][FetchReturned =>
         LET rs == get_user_submissions(ListingPages, file_cache.files, opts.limit)
             kept == {k \in Requested(opts.limit) :
                        \E p \in Range(ListingPages[k]) : ~CachedId(p, file_cache.files)}
         IN /\ posts' = Flatten(rs)
            /\ \A b \in DOMAIN rs :
                  /\ rs[b] /= <<>>
                  /\ \A p \in Range(rs[b]) : ~CachedId(p, file_cache.files)
            /\ Len(rs) = Cardinality(kept)
            /\ file_cache' = file_cache
            /\ disk' = disk]_vars

C12_Witness ==
    /\ cmd = "user" /\ pc = "fetched"
    /\ opts.limit = None
    /\ posts /= <<>>
    /\ \E k \in DOMAIN ListingPages :
          /\ \A p \in Range(ListingPages[k]) : CachedId(p, file_cache.files)
          /\ \E p \in Range(ListingPages[k]) :
                \E i \in DOMAIN file_cache.files :
                   file_cache.files[i].id = p.id /\ ~file_cache.files[i].success

(* C13: the fetcher removes a post from a requested page only if the cache
   holds an entry of that post with success = true; a post whose entries all
   have success = false is returned. *)
C13_FilterBySuccess ==
    [][FetchReturned =>
         \A k \in Requested(opts.limit) :
            \A p \in Range(ListingPages[k]) :
               p \notin Range(posts') =>
                  \E i \in DOMAIN file_cache.files :
                     file_cache.files[i].id = p.id /\ file_cache.files[i].success]_vars

\* the run has parsed its posts, filtered them and is about to dispatch the first
DispatchStarts == pc = "dispatch" /\ units = <<>>

\* the listing of this run returns the post of descriptor p
Returned(p) ==
    \/ opts.mock
    \/ \E k \in Requested(opts.limit) : p.id \in {q.id : q \in Range(ListingPages[k])}

\* the descriptors whose unit ended with one of the outcomes os in the run before
EndedBefore(os) ==
    {prev_units[i].post : i \in {j \in DOMAIN prev_units : prev_units[j].outcome \in os}}

(* C14: in the user handler a descriptor whose unit ended Failed in the run
   before has no cache entry and, if the listing of this run returns its post, is dispatched
   again, whatever happened to the other descriptors of its post. *)
C14_FailedRetried ==
    (cmd = "user" /\ DispatchStarts) =>
        \A p \in EndedBefore({"Failed", "Err"}) :
           /\ \A i \in DOMAIN file_cache.files : ~SameKey(p, file_cache.files[i])
           /\ Returned(p) => p \in Range(posts_to_download)

(* C15: in the user handler a descriptor whose unit ended NotFound in the run
   before, the run having persisted its entry, is not dispatched again, whether
   the posts come from the listing API or from a mock file. *)
C15_NotFoundNotRetried ==
    (cmd = "user" /\ DispatchStarts) =>
        \A p \in EndedBefore({"NotFound"}) :
           (\E i \in DOMAIN file_cache.files : SameKey(p, file_cache.files[i]))
              => p \notin Range(posts_to_download)

\* the cache file marks the resource deleted or suspended
Gone == Loads /\ OnDisk.status.resource \in {"Deleted", "Suspended"}

(* C16: once the cache file marks the resource Deleted or Suspended, a run
   without force is never at a fetch or in the engine: it ends at the load with
   no post fetched and no unit, the mark and the entries on disk unchanged; the
   mark gives way to Active only in the Ok arm of the fetch of a forced run. *)
C16_GoneIsTerminal ==
    /\ [](Gone /\ ~opts.force => pc \in {"idle", "load", "ok", "err"})
    /\ [][/\ (Gone /\ ~opts.force /\ pc = "load") =>
                /\ pc' = "ok" /\ posts' = <<>> /\ units' = <<>>
                /\ Loads'
                /\ OnDisk'.status.resource = OnDisk.status.resource
                /\ OnDisk'.files = OnDisk.files
          /\ (Gone /\ ~Gone') =>
                /\ opts.force /\ pc = "fetched"
                /\ Loads' /\ OnDisk'.status.resource = "Active"]_vars

C16_Witness ==
    /\ runs = 2 /\ pc = "ok"
    /\ ~opts.force /\ ~opts.mock
    /\ Gone /\ OnDisk.status.resource = "Suspended"
    /\ file_cache_path /= None
    /\ posts = <<>> /\ units = <<>>

\* what the claim wants on disk after the fetch failed with e
StatusAfter(e, st) ==
    CASE e = "NotFound" -> st.resource = "Deleted"
      [] e = "Suspended" -> st.resource = "Suspended"
      [] e = "TooManyRequests" -> st.last_download = "RateLimit"
      [] e = "Forbidden" -> st.last_download = "Forbidden"

(* C17: in every handler a fetch that ends NotFound, Suspended, RateLimited or
   Forbidden dispatches no unit, leaves the cache file holding the entries
   unchanged and the status of the failure, and returns an error. *)
C17_FetchFailure ==
    [][\A e \in {"NotFound", "Suspended", "TooManyRequests", "Forbidden"} :
          (FetchErrOn(e) \/ SubFetchErrOn(e)) =>
             /\ units' = <<>>
             /\ Loads'
             /\ StatusAfter(e, OnDisk'.status)
             /\ OnDisk'.files = file_cache.files
             /\ pc' = "err"]_vars

\* the last_download the fetch attempt of the step stands for: the failure of a
\* failed request, Success otherwise
AttemptStatus ==
    IF FetchErrOn("TooManyRequests") THEN "RateLimit"
    ELSE IF FetchErrOn("Forbidden") THEN "Forbidden"
    ELSE IF FetchErrOn("Reqwest") THEN "Error"
    ELSE "Success"

(* C18: whenever an invocation of the user handler that loaded the cache file
   writes it, the last_download written is the one of the invocation's own
   fetch attempt and never the value that was loaded, mock runs and skipped
   runs of a deleted or suspended resource included. *)
C18_LastRunReset ==
    [][(cmd = "user" /\ file_cache_path' /= None /\ disk' /= disk) =>
          Loads' /\ OnDisk'.status.last_download = AttemptStatus]_vars

\* the layout of version 1 to 3 for the status and for an entry, and of version 4
StatusConforms(o, version) ==
    /\ Has(o, "resource")
    /\ IF version = 4 THEN Has(o, "last_download") ELSE Has(o, "lastDownload")

EntryConforms(o, version) ==
    /\ \A k \in {"id", "title", "subreddit", "url", "success"} : Has(o, k)
    /\ IF version = 4 THEN Has(o, "created_utc") ELSE Has(o, "createdUtc")

\* the payload carries a supported version and has the layout of that version
Conforms(p) ==
    /\ Has(p, "version") /\ p["version"] \in 1..4
    /\ Has(p, "files") /\ \A i \in DOMAIN p["files"] : EntryConforms(p["files"][i], p["version"])
    /\ p["version"] > 1 => Has(p, "status") /\ StatusConforms(p["status"], p["version"])

(* C19: when the cache file carries no version, a version other than 1..4, or
   does not have the layout of its version, the load of the user handler ends
   the run with an error: no post is fetched, no unit dispatched and the file
   is left as it was. *)
C19_LoadFails ==
    [][(cmd = "user" /\ pc = "load" /\ disk.exists /\ ~Conforms(disk.content[1])) =>
          /\ pc' = "err"
          /\ disk' = disk
          /\ posts' = <<>> /\ units' = <<>>
          /\ file_cache' = DefaultFileCache]_vars

C19_Witness ==
    /\ cmd = "user" /\ pc = "err" /\ runs = 2
    /\ disk.exists
    /\ HasVersion(disk.content[1]) /\ ~Conforms(disk.content[1])
    /\ posts = <<>> /\ units = <<>>

\* the entry a load made of the entry o of a payload of the latest version
SameEntry(f, o) ==
    /\ f.id = o["id"] /\ f.success = o["success"]
    /\ f.created_utc = o["created_utc"] /\ f.title = o["title"]
    /\ f.subreddit = o["subreddit"] /\ f.url = o["url"]
    /\ f.index = Opt(o, "index")
    /\ f.is_gallery = Opt(o, "is_gallery")
    /\ f.media_id = Opt(o, "media_id")

\* the load is over
Loaded == result /= None

(* C20: a cache file that has the layout of its version 1..4 loads, and what
   to_string writes of the loaded cache loads as the same cache; a file of the
   latest version loads with its status and its entries as they are; during a
   load the version goes up one at a time from the one of the file to 4. *)
C20_LoadIdempotent ==
    /\ (Loaded /\ Conforms(payload[1])) => result[1].ok
    /\ reloaded /= None => reloaded = result
    /\ (Loaded /\ Conforms(payload[1]) /\ payload[1]["version"] = 4) =>
          LET p == payload[1]
              c == result[1].cache
          IN /\ c.status.resource = p["status"]["resource"]
             /\ c.status.last_download = p["status"]["last_download"]
             /\ Len(c.files) = Len(p["files"])
             /\ \A i \in DOMAIN c.files : SameEntry(c.files[i], p["files"][i])
    /\ \A i \in DOMAIN trail : trail[i] = payload[1]["version"] + i - 1
    /\ (Loaded /\ result[1].ok) => trail /= <<>> /\ trail[Len(trail)] = 4

C20_Witness ==
    /\ reloaded /= None
    /\ payload[1]["version"] = 1
    /\ trail = <<1, 2, 3, 4>>
    /\ Len(result[1].cache.files) = MaxLen
    /\ \E i \in DOMAIN result[1].cache.files : result[1].cache.files[i].is_gallery /= None

\* a payload of version 1 as FileCacheV1 is written: state.rs 199-229
ValidV1(p) ==
    /\ Conforms(p) /\ p["version"] = 1
    /\ \A i \in DOMAIN p["files"] : DOMAIN p["files"][i] \subseteq KeysV1

(* C21: a version 1 payload loads as a cache of the latest version, Active and
   Success, with the same entries in the same order: id, index, success, title,
   subreddit, url and creation time as in the payload, no media id and no
   gallery flag. *)
C21_V1Complete ==
    (Loaded /\ ValidV1(payload[1])) =>
        LET p == payload[1]
            c == result[1].cache
        IN /\ result[1].ok
           /\ result[1].version = 4
           /\ c.status = FileCacheStatus("Active", "Success")
           /\ Len(c.files) = Len(p["files"])
           /\ \A i \in DOMAIN c.files :
                 /\ c.files[i].id = p["files"][i]["id"]
                 /\ c.files[i].index = Opt(p["files"][i], "index")
                 /\ c.files[i].success = p["files"][i]["success"]
                 /\ c.files[i].title = p["files"][i]["title"]
                 /\ c.files[i].subreddit = p["files"][i]["subreddit"]
                 /\ c.files[i].url = p["files"][i]["url"]
                 /\ c.files[i].created_utc = p["files"][i]["createdUtc"]
                 /\ c.files[i].media_id = None
                 /\ c.files[i].is_gallery = None

C21_Witness ==
    /\ Loaded /\ ValidV1(payload[1])
    /\ Has(payload[1], "status")
    /\ Len(payload[1]["files"]) = MaxLen
    /\ payload[1]["files"][1]["id"] /= payload[1]["files"][2]["id"]
    /\ trail = <<1, 2, 3, 4>>

\* following the cursors from the response at k, the listing comes to a response
\* without a cursor within n responses
RECURSIVE EndsFrom(_, _, _)
EndsFrom(ls, k, n) ==
    IF n = 0 THEN FALSE
    ELSE IF ls[k].after = None THEN TRUE
    ELSE EndsFrom(ls, ls[k].after[1], n - 1)

ListingEnds == EndsFrom(api[1].listing, 1, Len(api[1].listing))

\* what the request i was answered, stripped of the posts with a cached id
Batch(i) ==
    NonDownloaded(Respond(api[1].listing, requests[i].after).children, fetch_in[1].files)

(* C22: the first request of a fetch carries no cursor, every later request the
   cursor the request before was answered, and none follows a response without
   a cursor; the batches are returned in the order of their requests; the fetch
   returns whenever the listing comes to a response without a cursor. *)
C22_CursorProtocol ==
    /\ [](requests /= <<>> => requests[1].after = None)
    /\ [](\A i \in DOMAIN requests : i > 1 =>
             /\ requests[i - 1].returned /= None
             /\ requests[i].after = requests[i - 1].returned)
    /\ []((fetch_result /= None /\ fetch_result[1].ok) =>
             fetch_result[1].responses =
                SelectSeq([i \in DOMAIN requests |-> Batch(i)], LAMBDA b : b /= <<>>))
    /\ (api /= None /\ ListingEnds) ~> (fetch_result /= None)

C22_Witness ==
    /\ fetch_result /= None /\ fetch_result[1].ok
    /\ Len(requests) = 3
    /\ requests[2].after = Some(3)
    /\ Len(fetch_result[1].responses) = 3
    /\ fetch_result[1].responses[1] /= fetch_result[1].responses[2]

(* C23: with options.limit = L a fetch sends at most L requests to the listing,
   for every L the option takes; a response without a cursor is handled and
   its batch returned whatever the limit. *)
C23_LimitCaps ==
    /\ (fetch_in /= None /\ fetch_in[1].limit /= None) =>
          Len(requests) <= fetch_in[1].limit[1]
    /\ (fetch_result /= None /\ fetch_result[1].ok) =>
          \A i \in DOMAIN requests :
             (requests[i].returned = None /\ Batch(i) /= <<>>) =>
                fetch_result[1].responses[Len(fetch_result[1].responses)] = Batch(i)

\* the fetch returned an error, on the answer to its last request
Failed == fetch_result /= None /\ ~fetch_result[1].ok

LastStatus == requests[Len(requests)].status

(* C24: a user listing answered 403 asks the about endpoint once and returns
   Suspended exactly when the answer is a suspended account, Forbidden
   otherwise, a failed about request included; the subreddit and the search
   listing ask nothing and never return Suspended; 429, 404, 403, a failed
   request and an undecodable body each have an error of their own. *)
C24_ErrorKinds ==
    /\ Len(probes) <= 1
    /\ probes /= <<>> => Failed /\ api[1].endpoint = "user" /\ LastStatus = "403"
    /\ Failed =>
          LET error == fetch_result[1].error
          IN /\ (LastStatus = "403" /\ api[1].endpoint = "user") =>
                   /\ Len(probes) = 1
                   /\ error = IF probes[1] = "suspended" THEN "Suspended" ELSE "Forbidden"
             /\ (LastStatus = "403" /\ api[1].endpoint /= "user") => error = "Forbidden"
             /\ api[1].endpoint /= "user" => error /= "Suspended"
             /\ error = "TooManyRequests" <=> LastStatus = "429"
             /\ error = "NotFound" <=> LastStatus = "404"
             /\ error \in {"Forbidden", "Suspended"} <=> LastStatus = "403"
             /\ error = "ReqwestMiddleware" <=> LastStatus = "transport"
             /\ error = "Reqwest" <=> LastStatus = "undecodable"

C24_Witness ==
    /\ Failed
    /\ api[1].endpoint = "user"
    /\ LastStatus = "403"
    /\ probes = <<"429">>
    /\ fetch_result[1].error = "Forbidden"
    /\ Len(requests) = 2

(* C25: units run in parallel: while a unit is in flight, fewer than
   options.concurrency units hold a permit and a descriptor waits, the
   dispatcher can spawn the next unit, so that with k >= 2 and k descriptors
   k units can be in flight at once. *)
C25_Parallel ==
    (/\ EngineStarted /\ ~Ended
     /\ InFlight /= {}
     /\ Cardinality(InFlight) < opts.concurrency
     /\ posts_to_download /= <<>>) => ENABLED Dispatch

(* C26: within a run at most one token request publishes a token: a published
   token is neither replaced nor cleared before the run ends, and every unit
   that has a token has the published one, so a unit that comes to the token
   after its publication uses it and asks for none. *)
C26_OneToken ==
    /\ [](\A i \in DOMAIN units : units[i].token /= None => units[i].token = redgifs_token)
    /\ [][(redgifs_token /= None /\ runs' = runs) => redgifs_token' = redgifs_token]_vars

C26_Witness ==
    /\ Len(units) = 2
    /\ redgifs_token = Some(1)
    /\ units[1].token = Some(1)
    /\ units[2].token = Some(1)
    /\ units[2].st = "done"

\* the units that hold the guard of the run stats (user.rs 336-362)
HoldStats == {i \in DOMAIN units : units[i].st \in {"cache", "progress"}}

\* the units that hold the guard of the shared state (redgifs.rs 125-134)
HoldShared == {i \in DOMAIN units : lock_ss = Task(i)}

(* C27: a step that changes the cache is taken by a task while no other task
   holds the shared state, a step that changes the run stats while no other
   task holds them; at most one unit holds the stats guard and it is the owner
   of the lock; at the end of a run files_downloaded is the number of units
   that ended with bytes and downloads_failed the number that ended NotFound,
   Failed or with an error. *)
C27_Exclusive ==
    /\ [](/\ Cardinality(HoldStats) <= 1
          /\ \A i \in HoldStats : lock_stats = Task(i)
          /\ Cardinality(HoldShared) <= 1
          /\ (Ended /\ EngineStarted) =>
                /\ download_stats.files_downloaded = OutcomeCount({"Bytes"})
                /\ download_stats.downloads_failed
                     = OutcomeCount({"NotFound", "Failed", "Err"}))
    /\ [][/\ file_cache' /= file_cache => lock_ss = Free
          /\ download_stats' /= download_stats => lock_stats = Free]_vars

C27_Witness ==
    /\ Ended /\ EngineStarted
    /\ download_stats.files_downloaded = 2
    /\ download_stats.downloads_failed = 1
    /\ OutcomeCount({"NotFound"}) = 1
    /\ Len(file_cache.files) >= 3

\* ---------------------------------------------------------------- the parser
\* A String is the sequence of its pieces: the pieces are the substrings the
\* parser looks for, the dots it splits at, and what lies between them.
Str(piece) == <<piece>>

\* str::contains
Contains(string, pattern) ==
    \E k \in 0..(Len(string) - Len(pattern)) :
        SubSeq(string, k + 1, k + Len(pattern)) = pattern

\* the whole string taken for its last piece
WholeString(string) == string

\* reddit_parser.rs 149, 310: url.split('.').rev().take(1).collect()
LastPiece(string) ==
    LET dots == {k \in DOMAIN string : string[k] = "."}
        from == IF dots = {} THEN 1
                ELSE (CHOOSE k \in dots : \A j \in dots : j <= k) + 1
    IN  SubSeq(string, from, Len(string))

\* reddit_parser.rs 20-32, as the arms of parse_user_submitted fill it
RedditCrawlerPost(data, extension, index, provider, title, url) ==
    [author |-> data.author, created_utc |-> data.created_utc,
     extension |-> Str(extension), id |-> data.id, index |-> index,
     provider |-> provider, subreddit |-> data.subreddit, title |-> title,
     upvotes |-> data.ups, url |-> url]

\* iter().filter_map(..).collect(): the Some values, in the order of the iteration
FilterMap(options) == Flatten(options)

\* HashMap::get on the metadata, kept as its entries in the order keys() yields them
Get(media_metadata, media_id) ==
    LET found == {e \in DOMAIN media_metadata : media_metadata[e].key = media_id}
    IN  IF found = {} THEN None ELSE Some(media_metadata[CHOOSE e \in found : TRUE].value)

\* reddit_parser.rs 211: format!("{}-{}", title, i)
TitleOf(title, i) == title \o <<"-", ToString(i)>>

\* reddit_parser.rs 69-86: a video with the payload of the platform
NativeVideo(data) ==
    IF data.media /= None /\ data.media[1].reddit_video /= None
    THEN <<RedditCrawlerPost(data, "mp4", None, "RedditVideo", data.title,
                             data.media[1].reddit_video[1].hls_url)>>
    ELSE <<>>

\* reddit_parser.rs 89-112 and 120-142: the variants of one kind of the preview images
Variants(data, kind, extension, provider) ==
    IF data.preview = None THEN None
    ELSE LET images == data.preview[1].images
         IN  Some(FilterMap([k \in DOMAIN images |->
                 IF images[k].variants[kind] = None THEN None
                 ELSE Some(RedditCrawlerPost(data, extension, None, provider, data.title,
                                             images[k].variants[kind][1].source.url))]))

\* reddit_parser.rs 149-181: the url of the post itself
Outbound(data) ==
    IF LastPiece(data.url) = Str("gif")
    THEN <<RedditCrawlerPost(data, "gif", None, "RedditImage", data.title, data.url)>>
    ELSE <<RedditCrawlerPost(data, "webp", None, "RedditImage", data.title, data.url)>>

\* reddit_parser.rs 88-181: a post that is not a video
StillOrPreview(data) ==
    LET videos == Variants(data, "mp4", "mp4", "RedditImage")
        gifs == Variants(data, "gif", "gif", "RedditGifVideo")
    IN  IF videos /= None /\ videos[1] /= <<>> THEN videos[1]
        ELSE IF gifs /= None /\ gifs[1] /= <<>> THEN gifs[1]
        ELSE Outbound(data)

\* a gallery whose descriptors are numbered as they are kept
GalleryRenumbered(data) ==
    LET items == data.gallery_data[1].items
        kept == SelectSeq(items, LAMBDA it :
                   /\ Get(data.media_metadata[1], it.media_id) /= None
                   /\ Get(data.media_metadata[1], it.media_id)[1].s /= None
                   /\ Get(data.media_metadata[1], it.media_id)[1].s[1].u /= None)
    IN  [k \in DOMAIN kept |->
            RedditCrawlerPost(data, "webp", Some(k - 1), "RedditGalleryImage",
                              TitleOf(data.title, k - 1),
                              Get(data.media_metadata[1], kept[k].media_id)[1].s[1].u[1])]

\* reddit_parser.rs 194-226: the items of the gallery, looked up in the metadata
Gallery(data) ==
    LET items == data.gallery_data[1].items
        media_ids == [k \in DOMAIN items |-> items[k].media_id]
    IN  FilterMap([k \in DOMAIN media_ids |->
            LET media == Get(data.media_metadata[1], media_ids[k])
            IN  IF media = None \/ media[1].s = None \/ media[1].s[1].u = None THEN None
                ELSE Some(RedditCrawlerPost(data, "webp", Some(k - 1), "RedditGalleryImage",
                                            TitleOf(data.title, k - 1), media[1].s[1].u[1]))])

\* reddit_parser.rs 231-257: the entries of the metadata that carry an mp4
EmbeddedVideos(data) ==
    LET media_ids == [e \in DOMAIN data.media_metadata[1] |-> data.media_metadata[1][e].key]
    IN  FilterMap([k \in DOMAIN media_ids |->
            LET media == Get(data.media_metadata[1], media_ids[k])
            IN  IF media = None \/ media[1].s = None \/ media[1].s[1].mp4 = None THEN None
                ELSE Some(RedditCrawlerPost(data, "mp4", Some(k - 1), "RedditGifVideo",
                                            TitleOf(data.title, k - 1), media[1].s[1].mp4[1]))])

RedgifsImagePath == <<"redgifs", ".", "com/i/">>
RedgifsWatchPath == <<"redgifs", ".", "com/watch/">>
RedgifsIfrPath == <<"redgifs", ".", "com/ifr/">>
ImgurHost == <<"imgur">>

\* reddit_parser.rs 260-334: the embeds, told by media.type and by the url
Embeds(data) ==
    IF data.media /= None /\ data.media[1].type_field = Some("youtube.com")
    THEN <<RedditCrawlerPost(data, "mp4", None, "YoutubeVideo", data.title, data.url)>>
    ELSE IF Contains(data.url, RedgifsImagePath)
    THEN <<RedditCrawlerPost(data, "webp", None, "RedgifsImage", data.title, data.url)>>
    ELSE IF Contains(data.url, RedgifsWatchPath) \/ Contains(data.url, RedgifsIfrPath)
    THEN <<RedditCrawlerPost(data, "mp4", None, "RedgifsVideo", data.title, data.url)>>
    ELSE IF Contains(data.url, ImgurHost)
    THEN <<[RedditCrawlerPost(data, "", None, "ImgurImage", data.title, data.url)
              EXCEPT !.extension = LastPiece(data.url)]>>
    ELSE <<>>

\* reddit_parser.rs 47-339
parse_user_submitted(data) ==
    IF data.is_reddit_media_domain
    THEN IF data.is_video = Some(TRUE) THEN NativeVideo(data)
         ELSE IF data.is_video = Some(FALSE) THEN StillOrPreview(data)
         ELSE <<>>
    ELSE IF data.media_metadata /= None /\ data.is_gallery = Some(TRUE)
            /\ data.gallery_data /= None
         THEN Gallery(data)
         ELSE IF data.media_metadata /= None THEN EmbeddedVideos(data)
         ELSE Embeds(data)

\* ---------------------------------------------------------------- a call of the parser
\* items of a gallery, images of a preview
MaxItems == 2
MaxImages == 2

Urls ==
    { <<"https://i", ".", "redd", ".", "it/x", ".", "gif">>,
      <<"https://i", ".", "redd", ".", "it/x", ".", "jpg">>,
      <<"https://i", ".", "redd", ".", "it/x", ".", "gif", "?s=1">>,
      <<"https://v", ".", "redd", ".", "it/x">>,
      <<"https://www", ".", "reddit", ".", "com/gallery/x">>,
      <<"https://i", ".", "imgur", ".", "com/x", ".", "jpg">>,
      <<"https://", "imgur", ".", "com/x">>,
      <<"https://www", ".", "redgifs", ".", "com/i/", "x">>,
      <<"https://www", ".", "redgifs", ".", "com/watch/", "x">>,
      <<"https://www", ".", "redgifs", ".", "com/ifr/", "x">>,
      <<"https://www", ".", "redgifs", ".", "com/i/", "imgur">>,
      <<"https://www", ".", "youtube", ".", "com/watch?v=x">> }

MediaIds == {"m0", "m1"}

\* MediaMetadataValue of the entry of a key: s, its u and its mp4 are optional
MetaValues(key) ==
    {[s |-> None]} \cup
    {[s |-> Some([u |-> u, mp4 |-> mp4])] :
        u \in {None, Some(<<"https://preview/", key>>)},
        mp4 \in {None, Some(<<"https://mp4/", key>>)}}

\* the metadata, in every order its keys can be iterated in
MediaMetadatas ==
    {<<>>}
    \cup UNION {{<<[key |-> k, value |-> v]>> : v \in MetaValues(k)} : k \in MediaIds}
    \cup UNION {{<<[key |-> o[1], value |-> v], [key |-> o[2], value |-> w]>> :
                    v \in MetaValues(o[1]), w \in MetaValues(o[2])} :
                o \in {<<"m0", "m1">>, <<"m1", "m0">>}}

GalleryDatas ==
    {[items |-> items] :
        items \in UNION {[1..n -> {[media_id |-> m] : m \in MediaIds}] : n \in 0..MaxItems}}

RedditVideos == {[hls_url |-> <<"https://v", ".", "redd", ".", "it/x/HLSPlaylist", ".", "m3u8">>]}

Images ==
    {[variants |-> [mp4 |-> mp4, gif |-> gif]] :
        mp4 \in {None, Some([source |-> [url |-> <<"https://preview/x", ".", "mp4">>]])},
        gif \in {None, Some([source |-> [url |-> <<"https://preview/x", ".", "gif">>]])}}

Previews == {[images |-> images] : images \in UNION {[1..n -> Images] : n \in 0..MaxImages}}

\* RedditSubmittedChildData, the fields the parser reads
ChildData(domain, video, gallery, media, metadata, gallery_data, preview, url) ==
    [id |-> "b", author |-> "a1", subreddit |-> "s1", title |-> Str("t1"), ups |-> 1,
     created_utc |-> 1, url |-> url, is_reddit_media_domain |-> domain,
     is_video |-> video, is_gallery |-> gallery, media |-> media,
     media_metadata |-> metadata, gallery_data |-> gallery_data, preview |-> preview]

\* a gallery all of whose items are resolved
FullMetadata ==
    <<[key |-> "m0", value |-> [s |-> Some([u |-> Some(<<"https://preview/", "m0">>), mp4 |-> None])]],
      [key |-> "m1", value |-> [s |-> Some([u |-> Some(<<"https://preview/", "m1">>), mp4 |-> None])]]>>

FullGallery == [items |-> <<[media_id |-> "m0"], [media_id |-> "m1"]>>]

\* posts on the media domain of the platform, some of them flagged as galleries
DomainChildren ==
    {ChildData(TRUE, video, g[1], media, g[2], g[3], preview, url) :
        video \in {None, Some(TRUE), Some(FALSE)},
        g \in {<<None, None, None>>, <<Some(TRUE), Some(FullMetadata), Some(FullGallery)>>},
        media \in {None} \cup {Some([type_field |-> None, reddit_video |-> v]) :
                                  v \in {None} \cup {Some(r) : r \in RedditVideos}},
        preview \in {None} \cup {Some(pr) : pr \in Previews},
        url \in Urls}

\* posts hosted elsewhere
OtherChildren ==
    {ChildData(FALSE, None, gallery, media, metadata, gallery_data, None, url) :
        gallery \in {None, Some(TRUE), Some(FALSE)},
        media \in {None} \cup {Some([type_field |-> t, reddit_video |-> None]) :
                                  t \in {None, Some("youtube.com"), Some("vimeo.com")}},
        metadata \in {None} \cup {Some(m) : m \in MediaMetadatas},
        gallery_data \in {None} \cup {Some(gd) : gd \in GalleryDatas},
        url \in Urls}

ParseInit ==
    /\ Idle("user", <<>>, NoFile)
    /\ NoUpsert
    /\ NoMigration
    /\ NoFetching
    /\ NoDownloading
    /\ child \in {Some(c) : c \in DomainChildren \cup OtherChildren}
    /\ parsed = None
    /\ reparsed = None

\* reddit_parser.rs 38-45: parse calls parse_user_submitted on a child of the response
Parse ==
    /\ child /= None
    /\ parsed = None
    /\ parsed' = Some(parse_user_submitted(child[1]))
    /\ UNCHANGED <<child, reparsed, upsert, migration, fetching, downloading, program>>

\* the entries of a map in the orders a HashMap of these entries can yield them
Orders(entries) ==
    {o \in [DOMAIN entries -> Range(entries)] : \A e \in DOMAIN entries : \E k \in DOMAIN o : o[k] = entries[e]}

\* submitted_response.rs 68-69: the payload of the child is deserialized once more,
\* its media_metadata into a HashMap of its own, and parsed
ParseAgain ==
    /\ parsed /= None
    /\ reparsed = None
    /\ \E o \in (IF child[1].media_metadata = None THEN {None}
                  ELSE {Some(m) : m \in Orders(child[1].media_metadata[1])}) :
          reparsed' = Some(parse_user_submitted([child[1] EXCEPT !.media_metadata = o]))
    /\ UNCHANGED <<child, parsed, upsert, migration, fetching, downloading, program>>

ParseSpec == ParseInit /\ [][Parse \/ ParseAgain]_vars

\* ---------------------------------------------------------------- claims about the parser
\* the parser was called and returned
Called == child /= None /\ parsed /= None

\* the descriptors of one provider among ds, in their order
OfProvider(ds, provider) == SelectSeq(ds, LAMBDA d : d.provider = provider)

\* the positions of the gallery items of data whose metadata has a source url
Resolved(data) ==
    LET items == data.gallery_data[1].items
    IN  {k \in DOMAIN items :
            /\ data.media_metadata /= None
            /\ \E e \in DOMAIN data.media_metadata[1] :
                  /\ data.media_metadata[1][e].key = items[k].media_id
                  /\ data.media_metadata[1][e].value.s /= None
                  /\ data.media_metadata[1][e].value.s[1].u /= None}

\* the source url the metadata of data has for the gallery item at position k
SourceOf(data, k) ==
    LET md == data.media_metadata[1]
        e == CHOOSE e \in DOMAIN md : md[e].key = data.gallery_data[1].items[k].media_id
    IN  md[e].value.s[1].u[1]

\* the gallery descriptors among ds are those of the resolved items of data:
\* one each, in ascending order, numbered by the position of the item
PerResolvedItem(data, ds) ==
    LET images == OfProvider(ds, "RedditGalleryImage")
    IN  /\ Len(images) = Cardinality(Resolved(data))
        /\ \A a, b \in DOMAIN images : a < b => images[a].index[1] < images[b].index[1]
        /\ {images[a].index[1] + 1 : a \in DOMAIN images} = Resolved(data)
        /\ \A a \in DOMAIN images : images[a].url = SourceOf(data, images[a].index[1] + 1)

HasGallery(data) ==
    /\ data.is_gallery = Some(TRUE)
    /\ data.gallery_data /= None
    /\ data.gallery_data[1].items /= <<>>

(* C28, as stated: for every post flagged as a gallery with a non-empty item
   list the result has exactly one gallery descriptor per item whose metadata
   has a source url, in ascending order of index, the index being the position
   of the item in the list, and none for the other items. *)
C28_GalleryPerItem ==
    (Called /\ HasGallery(child[1])) => PerResolvedItem(child[1], parsed[1])

(* C28, amended: the same for every such post that is not hosted on the media
   domain of the platform. *)
C28_GalleryOffDomain ==
    (Called /\ ~child[1].is_reddit_media_domain /\ HasGallery(child[1])) =>
        PerResolvedItem(child[1], parsed[1])

C28_Witness ==
    /\ Called
    /\ ~child[1].is_reddit_media_domain
    /\ HasGallery(child[1])
    /\ Resolved(child[1]) = {2}
    /\ Len(parsed[1]) = 1
    /\ parsed[1][1].index = Some(1)

\* some entry of the metadata of data carries an embedded video
CarriesVideo(data) ==
    /\ data.media_metadata /= None
    /\ \E e \in DOMAIN data.media_metadata[1] :
          /\ data.media_metadata[1][e].value.s /= None
          /\ data.media_metadata[1][e].value.s[1].mp4 /= None

\* the first of the rules for posts hosted elsewhere whose condition holds for data
FirstRule(data) ==
    IF data.is_gallery = Some(TRUE) /\ data.media_metadata /= None /\ data.gallery_data /= None
    THEN "gallery"
    ELSE IF CarriesVideo(data) THEN "embedded video"
    ELSE IF data.media /= None /\ data.media[1].type_field = Some("youtube.com") THEN "video platform"
    ELSE IF Contains(data.url, RedgifsImagePath) THEN "single image"
    ELSE IF Contains(data.url, RedgifsWatchPath) \/ Contains(data.url, RedgifsIfrPath) THEN "video or embed"
    ELSE IF Contains(data.url, ImgurHost) THEN "legacy image host"
    ELSE "none"

\* ds is one descriptor of the provider, for the url of the post
OneOf(data, ds, provider) ==
    /\ Len(ds) = 1
    /\ ds[1].provider = provider
    /\ ds[1].url = data.url
    /\ ds[1].index = None

\* ds are descriptors of the rule
FromRule(data, ds, rule) ==
    CASE rule = "gallery" -> \A a \in DOMAIN ds : ds[a].provider = "RedditGalleryImage"
      [] rule = "embedded video" ->
            /\ ds /= <<>>
            /\ \A a \in DOMAIN ds : /\ ds[a].provider = "RedditGifVideo"
                                    /\ ds[a].extension = Str("mp4")
      [] rule = "video platform" -> OneOf(data, ds, "YoutubeVideo")
      [] rule = "single image" -> OneOf(data, ds, "RedgifsImage")
      [] rule = "video or embed" -> OneOf(data, ds, "RedgifsVideo")
      [] rule = "legacy image host" -> OneOf(data, ds, "ImgurImage")
      [] rule = "none" -> ds = <<>>

(* C29: for a post hosted elsewhere the result is made of the descriptors of
   the first rule whose condition holds (gallery, embedded video per item,
   video platform, single image, video or embed, legacy image host), whatever
   rules before it did not hold, and is empty when no rule holds. *)
C29_FirstRule ==
    (Called /\ ~child[1].is_reddit_media_domain) =>
        FromRule(child[1], parsed[1], FirstRule(child[1]))

\* the urls of the variants of one kind the preview of data has, image by image
VariantUrls(data, kind) ==
    IF data.preview = None THEN <<>>
    ELSE LET having == SelectSeq(data.preview[1].images, LAMBDA im : im.variants[kind] /= None)
         IN  [k \in DOMAIN having |-> having[k].variants[kind][1].source.url]

\* ds are descriptors with the extension, one per url and in their order
OnePerUrl(ds, urls, extension) ==
    /\ Len(ds) = Len(urls)
    /\ \A k \in DOMAIN ds : ds[k].url = urls[k] /\ ds[k].extension = Str(extension)

EndsInGif(url) == Len(url) >= 2 /\ url[Len(url) - 1] = "." /\ url[Len(url)] = "gif"

(* C30: for a post on the media domain of the platform, a video with the native
   payload yields exactly one RedditVideo descriptor, mp4, with the manifest
   url; a post marked as no video yields the mp4 variants of its preview if
   there are any, else its gif variants if there are any, else one descriptor
   with the url of the post, gif if the url ends in .gif and webp otherwise. *)
C30_MediaDomain ==
    (Called /\ child[1].is_reddit_media_domain) =>
        LET data == child[1]
            ds == parsed[1]
        IN  /\ (data.is_video = Some(TRUE) /\ data.media /= None
                  /\ data.media[1].reddit_video /= None) =>
                 /\ OnePerUrl(ds, <<data.media[1].reddit_video[1].hls_url>>, "mp4")
                 /\ ds[1].provider = "RedditVideo"
            /\ data.is_video = Some(FALSE) =>
                 IF VariantUrls(data, "mp4") /= <<>>
                 THEN OnePerUrl(ds, VariantUrls(data, "mp4"), "mp4")
                 ELSE IF VariantUrls(data, "gif") /= <<>>
                 THEN OnePerUrl(ds, VariantUrls(data, "gif"), "gif")
                 ELSE OnePerUrl(ds, <<data.url>>, IF EndsInGif(data.url) THEN "gif" ELSE "webp")

C30_Witness ==
    /\ Called
    /\ child[1].is_reddit_media_domain
    /\ child[1].is_video = Some(FALSE)
    /\ child[1].preview /= None
    /\ Len(child[1].preview[1].images) = 2
    /\ VariantUrls(child[1], "mp4") = <<>>
    /\ Len(VariantUrls(child[1], "gif")) = 1
    /\ Len(parsed[1]) = 1
    /\ parsed[1][1].extension = Str("gif")
    /\ ~EndsInGif(child[1].url)

\* downloader.rs 77-95: the path the file of a descriptor is written to
file_path(media) ==
    <<media.upvotes, media.author, media.id, media.created_utc>>
        \o (IF media.index /= None THEN <<"_", media.index[1]>> ELSE <<>>)
        \o <<".">> \o media.extension

(* C31: the result has more than one descriptor only when all of them are
   gallery descriptors, and the descriptors of one post differ pairwise in
   their key (id, index) and in the path of their file. *)
C31_OnlyGalleryMany ==
    Called =>
        /\ Len(parsed[1]) > 1 => \A a \in DOMAIN parsed[1] : parsed[1][a].provider = "RedditGalleryImage"
        /\ \A a, b \in DOMAIN parsed[1] : a /= b =>
              /\ <<parsed[1][a].id, parsed[1][a].index>> /= <<parsed[1][b].id, parsed[1][b].index>>
              /\ file_path(parsed[1][a]) /= file_path(parsed[1][b])

(* C32: two evaluations on the same post return the same descriptors in the
   same order and with the same index each. *)
C32_Deterministic ==
    (Called /\ reparsed /= None) => reparsed = parsed

\* the run before dispatched three descriptors, which ended Bytes, NotFound and Unhandled
ThreeOutcomesBefore ==
    /\ Len(prev_units) = 3
    /\ {prev_units[i].outcome : i \in DOMAIN prev_units} = {"Bytes", "NotFound", "Unhandled"}

(* C33: in the user handler the run after a completed run whose three
   descriptors ended Bytes, NotFound and Unhandled dispatches none of them and
   ends with all counters at zero and the two entries of the first run in the
   cache, in memory and on disk. *)
C33_SecondRunIdle ==
    (cmd = "user" /\ runs = 2 /\ ThreeOutcomesBefore) =>
        /\ units = <<>>
        /\ (pc = "ok" /\ clock = "stopped") =>
              /\ download_stats = DefaultStats
              /\ Loads /\ OnDisk.files = file_cache.files
              /\ Len(file_cache.files) = 2

\* ---------------------------------------------------------------- a call of the downloader
Providers == HttpProviders \cup ToolProviders \cup RedgifsProviders \cup {"ImgurImage", "None"}

DownloadInit ==
    /\ Idle("user", <<>>, NoFile)
    /\ NoUpsert
    /\ NoMigration
    /\ NoFetching
    /\ NoParsing
    /\ \E provider \in Providers : \E env \in Envs(provider) :
          download_in = Some([provider |-> provider, env |-> env])
    /\ download_out = None

\* user.rs 332: the task calls download_crawler_post for its post
Download ==
    /\ download_in /= None
    /\ download_out = None
    /\ download_out' = Some(download_crawler_post(download_in[1].provider, download_in[1].env))
    /\ UNCHANGED <<download_in, upsert, migration, fetching, parsing, program>>

DownloadSpec == DownloadInit /\ [][Download]_vars

\* the call was made for a post of one of the providers and returned or panicked
Downloaded(providers) ==
    /\ download_in /= None
    /\ download_out /= None
    /\ download_in[1].provider \in providers

\* the content-type denotes an HTML payload, whatever its parameters
DenotesHtml(content_type) ==
    /\ content_type /= None
    /\ content_type[1] /= NotAscii
    /\ Head(content_type[1]) = "text/html"

(* C35: for an Imgur post whose request was answered, an HTML content-type,
   with or without parameters, gives NotFound and no file; any other
   content-type, or none, gives the body written to the file and Bytes(n),
   n the length of the body, unless reading the body or writing the file fails. *)
C35_HtmlIsNotFound ==
    (Downloaded({"ImgurImage"}) /\ download_in[1].env.send) =>
        LET env == download_in[1].env
            out == download_out[1]
        IN  IF DenotesHtml(env.content_type)
            THEN out.result = "NotFound" /\ out.file = None
            ELSE (env.body /= None /\ env.disk = "ok") =>
                    /\ out.result = "Bytes" /\ out.bytes = env.body[1]
                    /\ out.file = Some([size |-> env.body[1], whole |-> TRUE])

(* C36: for a post retrieved by yt-dlp, Bytes(n) is reported only if the tool
   exited with success, n being the size of the file it produced; after a
   non-success exit the call ends with an error, whether or not there is a
   file at the path. *)
C36_ExitStatus ==
    (Downloaded(ToolProviders) /\ download_in[1].env.spawn) =>
        LET env == download_in[1].env
            out == download_out[1]
        IN  /\ out.result = "Bytes" => env.exit /\ out.bytes = env.file[1]
            /\ ~env.exit => out.result = "Err"

\* a unit in the step that records its success entry, after a retrieval that
\* wrote its whole file
RecordsWhole(i, entry) ==
    /\ units[i].st = "cache"
    /\ units[i].outcome = "Bytes"
    /\ units[i].finished
    /\ SameKey(units[i].post, entry)

(* C34: a success entry is added to the cache of a run only by a unit whose
   retrieval finished writing its whole file and ended Bytes; after a run that
   was aborted the cache holds no success entry for the descriptor of the unit
   that did not finish, and the next run of the user handler dispatches it
   again if its listing returns the post. *)
C34_NoPartialSuccess ==
    /\ [][(pc' = pc /\ pc \in {"dispatch", "join"}) =>
            \A j \in DOMAIN file_cache'.files :
               (j > Len(file_cache.files) /\ file_cache'.files[j].success) =>
                  \E i \in DOMAIN units : RecordsWhole(i, file_cache'.files[j])]_vars
    /\ []((cmd = "user" /\ DispatchStarts) =>
            \A p \in EndedBefore({"Panic", "none"}) :
               /\ ~HasSuccess(p, file_cache.files)
               /\ Returned(p) => p \in Range(posts_to_download))

(* C37: a fetch is all or nothing: when a request of the loop is not answered a
   listing (rate limit, not found, access denied, a failed request, an
   undecodable body) the fetch returns the error alone, with none of the
   batches of the earlier pages, and a fetch that returns batches had every
   request answered. *)
C37_AllOrNothing ==
    /\ (requests /= <<>> /\ LastStatus /= "200") =>
          /\ fetch_result /= None
          /\ ~fetch_result[1].ok
          /\ DOMAIN fetch_result[1] = {"ok", "error"}
    /\ (fetch_result /= None /\ fetch_result[1].ok) =>
          \A i \in DOMAIN requests : requests[i].status = "200"

C37_Witness ==
    /\ Failed
    /\ Len(requests) >= 2
    /\ fetch_st.responses /= <<>>
    /\ LastStatus = "429"

\* every entry of old is still there in new, at its place and under its key,
\* and successful if it was
Kept(old, new) ==
    /\ Len(new) >= Len(old)
    /\ \A i \in DOMAIN old :
          /\ SameKey(old[i], new[i])
          /\ old[i].success => new[i].success

\* user.rs 55-80, subreddit.rs 56-70: the step of a run that reads the cache file
LoadsCache == (cmd = "user" /\ pc = "load") \/ (cmd = "subreddit" /\ pc = "parsed")

(* C38: across the runs of a handler, whatever their options and however they
   end, no step removes an entry of the cache or turns a successful entry into
   an unsuccessful one, neither in the cache file nor in the cache a run holds
   in memory: the successful composite keys only grow. *)
C38_CacheGrows ==
    /\ [][(Loads /\ Loads') => Kept(OnDisk.files, OnDisk'.files)]_vars
    /\ [][(runs' = runs /\ ~LoadsCache) =>
             Kept(file_cache.files, file_cache'.files)]_vars
    /\ [][(LoadsCache /\ Loads /\ pc' /= "err") =>
             Kept(OnDisk.files, file_cache'.files)]_vars

C38_Witness ==
    /\ runs = 2
    /\ pc = "ok"
    /\ opts.update
    /\ opts.force
    /\ Loads
    /\ \E i \in DOMAIN OnDisk.files :
          /\ OnDisk.files[i].success
          /\ \E j \in DOMAIN posts : SameKey(posts[j], OnDisk.files[i])

\* the step of the user handler that refreshes the cache in update mode
UpdateStep == pc = "parsed" /\ cmd = "user" /\ opts.update /\ pc' = "ok"

Fetched(entry) == \E j \in DOMAIN posts : KeyMatches(posts[j], entry)

(* C39: a run in update mode dispatches no unit; its refresh leaves the success
   flag of every entry as it was, changes no entry other than those whose
   composite key matches a fetched descriptor, and appends for each fetched
   descriptor without a matching entry a new entry that is not successful. *)
C39_UpdateOnly ==
    /\ []((cmd = "user" /\ opts.update) => units = <<>> /\ clock = "none")
    /\ [][UpdateStep =>
            LET old == file_cache.files
                new == file_cache'.files
            IN /\ Len(new) >= Len(old)
               /\ \A i \in DOMAIN old :
                     /\ new[i].success = old[i].success
                     /\ ~Fetched(old[i]) => new[i] = old[i]
               /\ \A i \in DOMAIN new \ DOMAIN old :
                     ~new[i].success /\ Fetched(new[i])
               /\ \A j \in DOMAIN posts :
                     Find(old, posts[j]) = 0 =>
                        \E i \in DOMAIN new \ DOMAIN old : KeyMatches(posts[j], new[i])]_vars

\* user.rs 222-244: the entry after the backfill of the gallery flag over new
Backfilled(entry, new) ==
    IF entry.is_gallery /= None THEN entry
    ELSE [entry EXCEPT !.is_gallery =
             Some(Cardinality({k \in DOMAIN new : new[k].id = entry.id}) > 1)]

(* C39, as the code has it: a run in update mode dispatches no unit; its refresh
   leaves the success flag of every entry as it was, changes of an entry whose
   composite key matches no fetched descriptor nothing but a missing gallery
   flag, which it sets to whether another entry has the same post id, and
   appends for each fetched descriptor without a matching entry a new entry
   that is not successful. *)
C39_UpdateBackfills ==
    /\ []((cmd = "user" /\ opts.update) => units = <<>> /\ clock = "none")
    /\ [][UpdateStep =>
            LET old == file_cache.files
                new == file_cache'.files
            IN /\ Len(new) >= Len(old)
               /\ \A i \in DOMAIN old :
                     /\ new[i].success = old[i].success
                     /\ ~Fetched(old[i]) => new[i] = Backfilled(old[i], new)
               /\ \A i \in DOMAIN new \ DOMAIN old :
                     ~new[i].success /\ Fetched(new[i])
               /\ \A j \in DOMAIN posts :
                     Find(old, posts[j]) = 0 =>
                        \E i \in DOMAIN new \ DOMAIN old : KeyMatches(posts[j], new[i])]_vars

C39_Witness ==
    /\ cmd = "user"
    /\ runs = 2
    /\ opts.update
    /\ pc = "ok"
    /\ posts /= <<>>
    /\ \E j, k \in DOMAIN file_cache.files :
          /\ file_cache.files[j].success
          /\ ~Fetched(file_cache.files[j]) /\ file_cache.files[j].is_gallery = Some(FALSE)
          /\ ~file_cache.files[k].success /\ Fetched(file_cache.files[k])

====
